---- MODULE Spec2Model ----
(***************************************************************************)
(* A model of gcsfs/core.py: the read window of GCSFile (seek, read,       *)
(* _fetch, _fetch_range), the write side of GCSFile (write, flush,         *)
(* _simple_upload, _initiate_upload, _upload_chunk, close) against a       *)
(* storage provider, the listing cache of GCSFileSystem, and the retry     *)
(* loop of GCSFileSystem._call.                                            *)
(*                                                                         *)
(* Sizes are scaled: the source's 5 * 2**20 and 2**18 are far beyond what  *)
(* can be enumerated, and the code only compares with them and divides by  *)
(* them, so each is a small number here (FetchAlign, OneShotMax,           *)
(* MinBlock).  Bytes are natural numbers: the byte at offset i of the      *)
(* object being read is i, and the k-th byte a caller writes is k, so that *)
(* a lost, duplicated or misplaced byte changes a sequence.                *)
(***************************************************************************)
EXTENDS Integers, Sequences, FiniteSets, TLC

VARIABLES
    rf,        \* the GCSFile opened 'rb': its fields
    rop,       \* the last call on rf: what was called, what it returned
    wf,        \* the GCSFile opened 'wb': its fields
    gcs,       \* the provider: resumable session and stored object
    wop,       \* the last call on wf: what was called, how it ended
    dirs,      \* GCSFileSystem.dirs, the listing cache
    call,      \* one GCSFileSystem._call in progress
    auth,      \* the credential of the GCSFileSystem, the clock, the last request
    fsop,      \* the last call on the GCSFileSystem: what was called, what it returned
    objects    \* the provider: its buckets and the keys of their objects

vars == <<rf, rop, wf, gcs, wop, dirs, call, auth, fsop, objects>>

\* ------------------------------------------------------------- bounds

MaxSize == 5        \* largest object read
MaxBlock == 3       \* largest block_size of a read handle
MaxLoc == 7        \* largest position a seek may set
MaxLen == 3         \* largest length passed to read

\* ---------------------------------------------------------- constants

\* self.start = None, self.end = None: no window yet
None == -1

\* 5 * 2**20 in _fetch, scaled
FetchAlign == 2

\* ------------------------------------------------------------ helpers

Min(a, b) == IF a < b THEN a ELSE b

Max(a, b) == IF a > b THEN a ELSE b

\* s[i:j] of Python, for a sequence s and integers i, j
PySlice(s, i, j) ==
    LET n == Len(s)
        lo == IF i < 0 THEN Max(n + i, 0) ELSE Min(i, n)
        hi == IF j < 0 THEN Max(n + j, 0) ELSE Min(j, n)
    IN  IF lo >= hi THEN << >> ELSE SubSeq(s, lo + 1, hi)

\* s[i:] of Python
PyFrom(s, i) == PySlice(s, i, Len(s))

\* the bytes of the object at offsets a .. b-1
Content(a, b) == [k \in 1..(b - a) |-> a + k - 1]

\* ------------------------------------------------------------- reader

\* the provider's answer to GET mediaLink with Range: bytes=start-(end-1):
\* the bytes it has in that range, or the body 'Request range not
\* satisfiable', which _fetch_range turns into b''
FetchRange(size, start, end) ==
    IF start >= size THEN << >> ELSE Content(start, Min(end, size))

\* start // (5 * 2**20) * 5 * 2**20
AlignDown(x) == (x \div FetchAlign) * FetchAlign

\* (end // (5 * 2 ** 20) + 1) * 5 * 2 ** 20
AlignUp(x) == ((x \div FetchAlign) + 1) * FetchAlign

\* GCSFile._fetch(start, end) on the handle f; n counts the requests sent
FetchFirst(f, start, end) ==
    IF f.start = None /\ f.end = None
    THEN [f EXCEPT !.start = start, !.end = end + f.blocksize,
                   !.cache = FetchRange(f.size, start, end + f.blocksize),
                   !.n = @ + 1]
    ELSE f

FetchBefore(f, start) ==
    IF start < f.start
    THEN [f EXCEPT !.start = start,
                   !.cache = FetchRange(f.size, start, f.start) \o @,
                   !.n = @ + 1]
    ELSE f

FetchAfterMutNoPad(f, end) ==
    IF end > f.end /\ ~(f.end > f.size)
    THEN [f EXCEPT !.end = end + f.blocksize,
                   !.cache = @ \o FetchRange(f.size, f.end, end),
                   !.n = @ + 1]
    ELSE f

FetchAfter(f, end) ==
    IF end > f.end /\ ~(f.end > f.size)
    THEN [f EXCEPT !.end = end + f.blocksize,
                   !.cache = @ \o FetchRange(f.size, f.end, end + f.blocksize),
                   !.n = @ + 1]
    ELSE f

Fetch(f, start, end) ==
    FetchAfter(FetchBefore(FetchFirst(f, AlignDown(start), AlignUp(end)),
                           AlignDown(start)),
               AlignUp(end))

\* the trimming with the cache left as it was
TrimMutKeepCache(f) ==
    LET num == ((f.loc - f.start) \div f.blocksize) - 1
    IN  IF f.trim /\ num > 0
        THEN [f EXCEPT !.start = @ + f.blocksize * num]
        ELSE f

\* the trimming at the end of GCSFile.read
Trim(f) ==
    LET num == ((f.loc - f.start) \div f.blocksize) - 1
    IN  IF f.trim /\ num > 0
        THEN [f EXCEPT !.start = @ + f.blocksize * num,
                       !.cache = PyFrom(@, f.blocksize * num)]
        ELSE f

\* GCSFile.__init__ in mode 'rb', info() having given the size
NewReader(size, bs) ==
    [start |-> None, end |-> None, cache |-> << >>, loc |-> 0,
     closed |-> FALSE, trim |-> TRUE, blocksize |-> bs, size |-> size, n |-> 0]

\* windows: the window (start, end) at each slice the call took of the
\* cache; from and got: where the run of __next__ calls began that the
\* call belongs to, and the lines it has returned; answer: what the
\* provider answered to the requests of the call
NoOp == [op |-> "none", exc |-> "none", at |-> 0, len |-> 0, out |-> << >>,
         prev |-> "none", reqs |-> 0, windows |-> << >>, from |-> None,
         got |-> << >>, answer |-> "ok"]

\* seek that takes a position before the start for the start
SeekMutClamp(loc, whence) ==
    LET nloc == CASE whence = 0 -> loc
                  [] whence = 1 -> rf.loc + loc
                  [] whence = 2 -> rf.size + loc
    IN  /\ nloc <= MaxLoc
        /\ rf' = [rf EXCEPT !.loc = Max(nloc, 0)]
        /\ rop' = [NoOp EXCEPT !.op = "seek", !.at = nloc, !.prev = rop.op]
        /\ UNCHANGED <<wf, gcs, wop, dirs, call, auth, fsop, objects>>

\* GCSFile.seek(loc, whence); at is the position asked for
Seek(loc, whence) ==
    LET nloc == CASE whence = 0 -> loc
                  [] whence = 1 -> rf.loc + loc
                  [] whence = 2 -> rf.size + loc
    IN  /\ nloc <= MaxLoc
        /\ IF nloc < 0
           THEN /\ rop' = [NoOp EXCEPT !.op = "seek", !.exc = "ValueError",
                                       !.at = nloc, !.prev = rop.op]
                /\ UNCHANGED rf
           ELSE /\ rf' = [rf EXCEPT !.loc = nloc]
                /\ rop' = [NoOp EXCEPT !.op = "seek", !.at = nloc,
                                       !.prev = rop.op]
        /\ UNCHANGED <<wf, gcs, wop, dirs, call, auth, fsop, objects>>

\* GCSFile.read(length)
Read(length) ==
    LET len == IF length < 0 THEN rf.size ELSE length
        f1 == Fetch([rf EXCEPT !.n = 0], rf.loc, rf.loc + len)
        out == PySlice(f1.cache, f1.loc - f1.start, f1.loc - f1.start + len)
        f2 == Trim([f1 EXCEPT !.loc = @ + Len(out)])
    IN  /\ IF rf.closed
           THEN /\ rop' = [NoOp EXCEPT !.op = "read", !.exc = "ValueError",
                                       !.prev = rop.op]
                /\ UNCHANGED rf
           ELSE /\ rf' = [f2 EXCEPT !.n = 0]
                /\ rop' = [NoOp EXCEPT !.op = "read", !.at = rf.loc,
                                       !.len = len, !.out = out,
                                       !.prev = rop.op, !.reqs = f1.n,
                                       !.windows = <<[start |-> f1.start,
                                                      end |-> f1.end]>>]
        /\ UNCHANGED <<wf, gcs, wop, dirs, call, auth, fsop, objects>>

\* GCSFile.close() in mode 'rb'
CloseReader ==
    /\ rf' = IF rf.closed THEN rf ELSE [rf EXCEPT !.cache = << >>, !.closed = TRUE]
    /\ rop' = [NoOp EXCEPT !.op = "close", !.prev = rop.op]
    /\ UNCHANGED <<wf, gcs, wop, dirs, call, auth, fsop, objects>>


\* the body of a response that reports a failure: bytes that are none of
\* the object's
ErrorBody == <<0 - 1, 0 - 1>>

\* what the provider may answer to a ranged GET: the bytes, or a failure
\* (401 and 403 of an authorization refused, 500 of the server)
FetchAnswers == {"ok", "denied", "server"}

\* _fetch_range(header, details, start, end), the provider answering r:
\* the body of the response, whatever its status
FetchRangeOf(r, size, start, end) ==
    IF r = "ok" THEN FetchRange(size, start, end) ELSE ErrorBody

\* GCSFile._fetch(start, end), the provider answering r to every request
FetchOf(f, start, end, r) ==
    LET s == AlignDown(start)
        e == AlignUp(end)
        First(g) ==
            IF g.start = None /\ g.end = None
            THEN [g EXCEPT !.start = s, !.end = e + g.blocksize,
                           !.cache = FetchRangeOf(r, g.size, s, e + g.blocksize),
                           !.n = @ + 1]
            ELSE g
        Before(g) ==
            IF s < g.start
            THEN [g EXCEPT !.start = s,
                           !.cache = FetchRangeOf(r, g.size, s, g.start) \o @,
                           !.n = @ + 1]
            ELSE g
        After(g) ==
            IF e > g.end /\ ~(g.end > g.size)
            THEN [g EXCEPT !.end = e + g.blocksize,
                           !.cache = @ \o FetchRangeOf(r, g.size, g.end,
                                                       e + g.blocksize),
                           !.n = @ + 1]
            ELSE g
    IN  After(Before(First(f)))

\* GCSFile.read(length) on the handle f: the handle after it, what it
\* returns or raises, and the window it sliced
ReadOf(f, length, r) ==
    LET len == IF length < 0 THEN f.size ELSE length
        Cut(g, out) ==
            [f |-> Trim([g EXCEPT !.loc = @ + Len(out)]), out |-> out,
             exc |-> "none",
             windows |-> <<[start |-> g.start, end |-> g.end]>>]
        Slice(g) ==
            Cut(g, PySlice(g.cache, g.loc - g.start, g.loc - g.start + len))
    IN  IF f.closed
        THEN [f |-> f, out |-> << >>, exc |-> "ValueError", windows |-> << >>]
        ELSE Slice(FetchOf(f, f.loc, f.loc + len, r))

\* bytes.find(b'\n') without the 1 added to it
FindNewlineMutNoPlusOne(bytes, newlines) ==
    IF \E i \in DOMAIN bytes : bytes[i] \in newlines
    THEN (CHOOSE i \in DOMAIN bytes :
            /\ bytes[i] \in newlines
            /\ \A j \in 1..(i - 1) : bytes[j] \notin newlines) - 1
    ELSE 0 - 1

\* bytes.find(b'\n') + 1: newlines is the set of the bytes that are b'\n'
FindNewline(bytes, newlines) ==
    IF \E i \in DOMAIN bytes : bytes[i] \in newlines
    THEN CHOOSE i \in DOMAIN bytes :
            /\ bytes[i] \in newlines
            /\ \A j \in 1..(i - 1) : bytes[j] \notin newlines
    ELSE 0

MaxPasses == 8      \* most passes of the loop of readline that are followed
MaxCache == 6       \* most bytes in the window of a handle whose requests fail

\* the loop of GCSFile.readline(length) from its pass on the window of g;
\* seen holds the windows of the passes before. A loop that has not
\* returned after MaxPasses passes is given up as "unfinished"
RECURSIVE LineLoop(_, _, _, _, _, _)
LineLoop(g, length, r, newlines, seen, fuel) ==
    LET found == FindNewline(PyFrom(g.cache, g.loc - g.start), newlines)
        windows == Append(seen, [start |-> g.start, end |-> g.end])
        Return(d) == [d EXCEPT !.windows = windows \o @]
    IN  IF 0 < length /\ length < found THEN Return(ReadOf(g, length, r))
        ELSE IF found > 0 THEN Return(ReadOf(g, found, r))
        ELSE IF g.end > g.size THEN Return(ReadOf(g, length, r))
        ELSE IF fuel = 0
        THEN [f |-> g, out |-> << >>, exc |-> "unfinished", windows |-> windows]
        ELSE LineLoop(FetchOf(g, g.start, g.end + g.blocksize, r), length, r,
                      newlines, windows, fuel - 1)

\* GCSFile.readline(length) on an open handle
ReadlineOf(f, length, r, newlines) ==
    LineLoop(FetchOf(f, f.loc, f.loc + 1, r), length, r, newlines, << >>,
             MaxPasses)

\* GCSFile.read(length), the provider answering r
ReadFrom(length, r) ==
    /\ \E d \in {ReadOf([rf EXCEPT !.n = 0], length, r)} :
            /\ Len(d.f.cache) <= MaxCache
            /\ rf' = [d.f EXCEPT !.n = 0]
            /\ rop' = [NoOp EXCEPT !.op = "read", !.exc = d.exc,
                                   !.at = rf.loc, !.len = length,
                                   !.out = d.out, !.prev = rop.op,
                                   !.reqs = d.f.n, !.windows = d.windows,
                                   !.answer = r]
    /\ UNCHANGED <<wf, gcs, wop, dirs, call, auth, fsop, objects>>

\* GCSFile.readline(length), the provider answering r
Readline(length, r) ==
    /\ ~rf.closed
    /\ \E d \in {ReadlineOf([rf EXCEPT !.n = 0], length, r, gcs.newlines)} :
            /\ Len(d.f.cache) <= MaxCache
            /\ rf' = [d.f EXCEPT !.n = 0]
            /\ rop' = [NoOp EXCEPT !.op = "readline", !.exc = d.exc,
                                   !.at = rf.loc, !.len = length,
                                   !.out = d.out, !.prev = rop.op,
                                   !.reqs = d.f.n, !.windows = d.windows,
                                   !.answer = r]
    /\ UNCHANGED <<wf, gcs, wop, dirs, call, auth, fsop, objects>>

\* GCSFile.__next__()
NextLine ==
    /\ ~rf.closed
    /\ \E d \in {ReadlineOf([rf EXCEPT !.n = 0], 0 - 1, "ok", gcs.newlines)} :
            /\ rf' = [d.f EXCEPT !.n = 0]
            /\ rop' = [NoOp EXCEPT
                        !.op = "next",
                        !.exc = IF d.exc = "none" /\ d.out = << >>
                                THEN "StopIteration" ELSE d.exc,
                        !.at = rf.loc, !.len = 0 - 1, !.out = d.out,
                        !.prev = rop.op, !.reqs = d.f.n,
                        !.windows = d.windows,
                        !.from = IF rop.op = "next" /\ rop.exc = "none"
                                 THEN rop.from ELSE rf.loc,
                        !.got = IF rop.op = "next" /\ rop.exc = "none"
                                THEN Append(rop.got, d.out)
                                ELSE <<d.out>>]
    /\ UNCHANGED <<wf, gcs, wop, dirs, call, auth, fsop, objects>>

\* ------------------------------------------------------------- writer

\* 2**18, the least block size of a write handle, scaled
MinBlock == 2

\* 5 * 2**20, the most a one-shot upload takes, scaled
OneShotMax == 3

\* the bytes number a+1 .. b of all the bytes the caller writes
Written(a, b) == [k \in 1..(b - a) |-> a + k]

\* hashlib.md5: the state is the bytes fed to update(); digest() of two
\* states are equal only if the bytes are
Digest(bytes) == <<"md5", bytes>>

\* base64.b64encode
B64encode(d) == <<"b64", d>>

\* the md5Hash field of an object resource
Md5Hash(bytes) == B64encode(Digest(bytes))

\* io.BytesIO.write(data) at position pos
BufferWrite(buffer, pos, data) ==
    PySlice(buffer, 0, pos) \o data \o PyFrom(buffer, pos + Len(data))

\* what the provider keeps of the bytes it was sent to complete an object:
\* all of them, all but the last `part` (the bytes of the last request
\* lost), or the bytes with the last one damaged
Stored(bytes, part, store) ==
    CASE store = "faithful" -> bytes
      [] store = "truncated" -> PySlice(bytes, 0, Len(bytes) - part)
      [] store = "corrupt" ->
            IF bytes = << >> THEN bytes
            ELSE [bytes EXCEPT ![Len(bytes)] = 0]

\* GCSFile.__init__ in mode 'wb'
NewWriter(bucket, bs, consistency) ==
    [bucket |-> bucket, blocksize |-> IF bs < MinBlock THEN MinBlock ELSE bs,
     consistency |-> consistency, md5 |-> << >>, loc |-> 0, closed |-> FALSE,
     buffer |-> << >>, pos |-> 0, offset |-> 0, forced |-> FALSE,
     location |-> "None"]

\* the provider before the handle's first request: the bytes the resumable
\* session holds, the object stored and whether it differs from the bytes
\* sent for it, and whether a chunk was ever acknowledged in part
NewGcs == [persisted |-> << >>, object |-> << >>, exists |-> FALSE,
           damaged |-> FALSE, partial |-> FALSE]

\* a call on the write handle in progress: the handle f, the provider g, the
\* exception raised so far, the requests sent, the completions the
\* provider reported, and whether the provider's answers were ones it can
\* give
World(f, g) ==
    [f |-> f, g |-> g, exc |-> "none", asked |-> {}, done |-> << >>,
     valid |-> TRUE]

Raise(w, e) == [w EXCEPT !.exc = e]

\* the consistency check of _simple_upload and _upload_chunk on a
\* completion that reports size and md5; sent is what the size is
\* compared with
SizeCheck(f, size, sent) == f.consistency = "size" => size = sent

Md5Check(f, md5) ==
    f.consistency = "md5" => B64encode(Digest(f.md5)) = md5

\* GCSFile._simple_upload, the provider answering sr
SimpleUpload(w, sr) ==
    LET f == w.f
        data == f.buffer
        f1 == [f EXCEPT !.pos = Len(f.buffer)]
        w1 == [w EXCEPT !.f = f1, !.asked = @ \cup {"simple"}]
        kept == Stored(data, 1, sr.store)
        g2 == [w.g EXCEPT !.object = kept, !.exists = TRUE,
                          !.damaged = (kept # data)]
        rep == [proto |-> "simple", size |-> Len(kept), md5 |-> Md5Hash(kept)]
        f2 == IF f.consistency = "md5"
              THEN [f1 EXCEPT !.md5 = @ \o data] ELSE f1
        w2 == [w1 EXCEPT !.f = f2, !.g = g2, !.done = Append(@, rep)]
    IN  IF w.exc # "none" THEN w
        ELSE IF sr.kind = "error" THEN Raise(w1, "HttpError")
        ELSE IF ~SizeCheck(f2, rep.size, f2.pos) THEN Raise(w2, "AssertionError")
        ELSE IF ~Md5Check(f2, rep.md5) THEN Raise(w2, "AssertionError")
        ELSE w2

\* GCSFile._initiate_upload, the provider answering ir
InitiateUpload(w, ir) ==
    IF w.exc # "none" THEN w
    ELSE IF ir = "error"
         THEN Raise([w EXCEPT !.asked = @ \cup {"initiate"}], "KeyError")
    ELSE [w EXCEPT !.asked = @ \cup {"initiate"},
                   !.f.location = "session", !.g.persisted = << >>]

\* the provider can give the answer cr to a chunk of l bytes at offset:
\* it never forgets bytes it acknowledged, acknowledges none it was not
\* sent, names a Range only when it holds a byte, and reports completion
\* only when told the total
ChunkAnswerable(g, offset, l, final, cr) ==
    CASE cr.kind = "error" -> TRUE
      [] cr.kind = "range" ->
            /\ cr.upto >= Len(g.persisted)
            /\ cr.upto >= 1
            /\ cr.upto <= Max(offset + l, Len(g.persisted))
      [] cr.kind = "norange" -> Len(g.persisted) = 0
      [] cr.kind = "ok" -> final

\* the bytes the session holds once it holds upto bytes, the request
\* having carried data at offset
Persist(g, offset, data, upto) ==
    g.persisted \o
    PySlice(data, Len(g.persisted) - offset, upto - offset)

\* the 'Range' in r.headers branch of _upload_chunk, upto bytes acknowledged
ChunkPartialMutNoSeek(w, data, l, upto) ==
    LET f == w.f
        shortfall == (f.offset + l - 1) - (upto - 1)
    IN  IF shortfall # 0
        THEN [w EXCEPT
                !.f.md5 = IF f.consistency = "md5"
                          THEN @ \o PySlice(data, 0, 0 - shortfall) ELSE @,
                !.f.buffer = PyFrom(data, Len(data) - shortfall),
                !.f.pos = 0,
                !.f.offset = @ + l - shortfall]
        ELSE [w EXCEPT
                !.f.md5 = IF f.consistency = "md5" THEN @ \o data ELSE @,
                !.f.buffer = << >>,
                !.f.pos = 0,
                !.f.offset = @ + l - shortfall]

ChunkPartialMutAdvance(w, data, l, upto) ==
    LET f == w.f
        shortfall == (f.offset + l - 1) - (upto - 1)
    IN  IF shortfall # 0
        THEN [w EXCEPT
                !.f.md5 = IF f.consistency = "md5"
                          THEN @ \o PySlice(data, 0, 0 - shortfall) ELSE @,
                !.f.buffer = PySlice(data, 0 - shortfall, Len(data)),
                !.f.pos = shortfall,
                !.f.offset = @ + l]
        ELSE [w EXCEPT
                !.f.md5 = IF f.consistency = "md5" THEN @ \o data ELSE @,
                !.f.buffer = << >>,
                !.f.pos = 0,
                !.f.offset = @ + l]

ChunkPartial(w, data, l, upto) ==
    LET f == w.f
        shortfall == (f.offset + l - 1) - (upto - 1)
    IN  IF shortfall # 0
        THEN [w EXCEPT
                !.f.md5 = IF f.consistency = "md5"
                          THEN @ \o PySlice(data, 0, 0 - shortfall) ELSE @,
                !.f.buffer = PySlice(data, 0 - shortfall, Len(data)),
                !.f.pos = shortfall,
                !.f.offset = @ + l - shortfall]
        ELSE [w EXCEPT
                !.f.md5 = IF f.consistency = "md5" THEN @ \o data ELSE @,
                !.f.buffer = << >>,
                !.f.pos = 0,
                !.f.offset = @ + l - shortfall]

\* the else branch of _upload_chunk: the provider reported completion rep
ChunkComplete(w, l, rep) ==
    LET f == w.f
    IN  IF ~SizeCheck(f, rep.size, f.pos + f.offset)
        THEN Raise(w, "AssertionError")
        ELSE IF ~Md5Check(f, rep.md5) THEN Raise(w, "AssertionError")
        ELSE [w EXCEPT !.f.buffer = << >>, !.f.pos = 0, !.f.offset = @ + l]

\* GCSFile._upload_chunk(final), the provider answering cr
UploadChunk(w, final, cr) ==
    LET f == w.f
        data == f.buffer
        l == Len(f.buffer)
        f1 == [f EXCEPT !.pos = l]
        w1 == [w EXCEPT !.f = f1, !.asked = @ \cup {"chunk"},
                        !.valid = @ /\ ChunkAnswerable(w.g, f.offset, l, final, cr)]
        sent == IF final /\ l = 0 THEN << >> ELSE data
        held == Persist(w.g, f.offset, sent, cr.upto)
        all == Persist(w.g, f.offset, sent, f.offset + l)
        kept == Stored(all, Len(all) - Len(w.g.persisted), cr.store)
        rep == [proto |-> "resumable", size |-> Len(kept), md5 |-> Md5Hash(kept)]
    IN  IF w.exc # "none" THEN w
        ELSE CASE cr.kind = "error" -> Raise(w1, "HttpError")
               [] cr.kind = "range" ->
                    IF final
                    THEN Raise([w1 EXCEPT !.g.persisted = held,
                                          !.g.partial = TRUE],
                               "AssertionError")
                    ELSE ChunkPartial(
                            [w1 EXCEPT !.g.persisted = held,
                                       !.g.partial = @ \/ cr.upto < f.offset + l],
                            data, l, cr.upto)
               [] cr.kind = "norange" ->
                    Raise(w1, IF final THEN "ValueError" ELSE "AssertionError")
               [] cr.kind = "ok" ->
                    ChunkComplete(
                        [w1 EXCEPT !.g.object = kept, !.g.exists = TRUE,
                                   !.g.persisted = all,
                                   !.g.damaged = (kept # all),
                                   !.done = Append(@, rep)],
                        l, rep)

\* GCSFile.flush(force), the provider answering sr, ir and cr to the
\* requests it gets
FlushBodyMutNotForced(w, force, sr, ir, cr) ==
    LET f == w.f
        Started(w1) ==
            IF w1.exc = "none" /\ w1.f.location # "None"
            THEN UploadChunk(w1, force, cr)
            ELSE w1
    IN  Started(IF force /\ f.offset = 0 /\ f.pos <= OneShotMax
                THEN SimpleUpload(w, sr)
                ELSE IF f.offset = 0 THEN InitiateUpload(w, ir)
                ELSE w)

FlushBody(w, force, sr, ir, cr) ==
    LET f == w.f
        Started(w1) ==
            IF w1.exc = "none" /\ w1.f.location # "None"
            THEN UploadChunk(w1, force, cr)
            ELSE w1
        Sent(w2) ==
            IF w2.exc = "none" /\ force THEN [w2 EXCEPT !.f.forced = TRUE]
            ELSE w2
    IN  Sent(Started(IF force /\ f.offset = 0 /\ f.pos <= OneShotMax
                     THEN SimpleUpload(w, sr)
                     ELSE IF f.offset = 0 THEN InitiateUpload(w, ir)
                     ELSE w))

FlushOf(w, force, sr, ir, cr) ==
    LET f == w.f
    IN  IF w.exc # "none" THEN w
        ELSE IF f.closed THEN Raise(w, "ValueError")
        ELSE IF f.pos = 0 /\ ~force THEN w
        ELSE IF force /\ f.forced THEN Raise(w, "ValueError")
        ELSE FlushBody(w, force, sr, ir, cr)

\* GCSFile.write(data), data being the next n bytes of the caller
WriteOf(w, n, sr, ir, cr) ==
    LET f == w.f
        data == Written(f.loc, f.loc + n)
        f1 == [f EXCEPT !.buffer = BufferWrite(f.buffer, f.pos, data),
                        !.pos = @ + n, !.loc = @ + n]
        w1 == [w EXCEPT !.f = f1]
    IN  IF f.closed THEN Raise(w, "ValueError")
        ELSE IF f.forced THEN Raise(w, "ValueError")
        ELSE IF f1.pos >= f1.blocksize THEN FlushOf(w1, FALSE, sr, ir, cr)
        ELSE w1

\* ------------------------------------------------------ listing cache

Buckets == {"b1", "b2"}

EmptyDict == [k \in {} |-> << >>]

\* dict.pop(key, None)
DictPop(d, key) == [k \in (DOMAIN d) \ {key} |-> d[k]]

\* d[key] = value
DictSet(d, key, value) ==
    [k \in (DOMAIN d) \cup {key} |-> IF k = key THEN value ELSE d[k]]

\* GCSFileSystem.invalidate_cache(bucket); None is written ""
InvalidateCacheMutKeep(d, bucket) == d

InvalidateCache(d, bucket) ==
    IF bucket \in {"/", ""} THEN EmptyDict ELSE DictPop(d, bucket)

\* the objects the provider lists for a bucket, named bucket/key
BucketItems(bucket) ==
    IF gcs.exists /\ wf.bucket = bucket
    THEN << [name |-> <<bucket, "key">>] >>
    ELSE << >>

\* GCSFile.close() in mode 'wb'
CloseOf(w, d, sr, ir, cr) ==
    LET Flushed(w1) ==
            IF w1.exc # "none" THEN [w |-> w1, dirs |-> d]
            ELSE [w |-> [w1 EXCEPT !.f.closed = TRUE],
                  dirs |-> InvalidateCache(d, w1.f.bucket)]
    IN  IF w.f.closed THEN [w |-> w, dirs |-> d]
        ELSE Flushed(FlushOf(w, TRUE, sr, ir, cr))

\* ------------------------------------------------- the write handle's calls

MaxTotal == 4       \* most bytes written to the handle
MaxWrite == 3       \* most bytes in one write
MaxWBlock == 3      \* largest block_size asked for a write handle
MaxFed == 4         \* most bytes fed to the md5 of the handle

Stores == {"faithful", "truncated", "corrupt"}

OkSimple == [kind |-> "ok", store |-> "faithful"]

ErrChunk == [kind |-> "error", upto |-> 0, store |-> "faithful"]

\* the answers the provider may give to the requests in asked
SimpleAnswers(asked) ==
    IF "simple" \notin asked THEN {OkSimple}
    ELSE {[kind |-> "error", store |-> "faithful"]}
         \cup {[kind |-> "ok", store |-> s] : s \in Stores}

InitAnswers(asked) ==
    IF "initiate" \notin asked THEN {"ok"} ELSE {"ok", "error"}

ChunkAnswers(asked) ==
    IF "chunk" \notin asked THEN {ErrChunk}
    ELSE {[kind |-> k, upto |-> 0, store |-> "faithful"] :
                k \in {"error", "norange"}}
         \cup {[kind |-> "range", upto |-> u, store |-> "faithful"] :
                u \in 1..MaxTotal}
         \cup {[kind |-> "ok", upto |-> 0, store |-> s] : s \in Stores}

\* finalized: some flush(force=True) has returned normally
WNoOp == [op |-> "none", exc |-> "none", asked |-> {}, done |-> << >>,
          force |-> FALSE, finalized |-> FALSE]

\* the outcome w of a call becomes the state
Outcome(w, op, force) ==
    /\ w.valid
    /\ Len(w.f.md5) <= MaxFed
    /\ wf' = w.f
    /\ gcs' = w.g
    /\ wop' = [op |-> op, exc |-> w.exc, asked |-> w.asked, done |-> w.done,
               force |-> force,
               finalized |-> wop.finalized \/
                   (force /\ w.exc = "none" /\ ~wf.closed)]

Write(n) ==
    /\ wf.loc + n <= MaxTotal
    /\ \E asked \in {WriteOf(World(wf, gcs), n, OkSimple, "ok", ErrChunk).asked} :
           \E sr \in SimpleAnswers(asked), ir \in InitAnswers(asked),
              cr \in ChunkAnswers(asked) :
                \E w \in {WriteOf(World(wf, gcs), n, sr, ir, cr)} :
                    Outcome(w, "write", FALSE)
    /\ UNCHANGED <<rf, rop, dirs, call, auth, fsop, objects>>

Flush(force) ==
    /\ \E asked \in {FlushOf(World(wf, gcs), force, OkSimple, "ok", ErrChunk).asked} :
           \E sr \in SimpleAnswers(asked), ir \in InitAnswers(asked),
              cr \in ChunkAnswers(asked) :
                \E w \in {FlushOf(World(wf, gcs), force, sr, ir, cr)} :
                    Outcome(w, "flush", force)
    /\ UNCHANGED <<rf, rop, dirs, call, auth, fsop, objects>>

Close ==
    /\ \E asked \in {CloseOf(World(wf, gcs), dirs, OkSimple, "ok", ErrChunk).w.asked} :
           \E sr \in SimpleAnswers(asked), ir \in InitAnswers(asked),
              cr \in ChunkAnswers(asked) :
                \E c \in {CloseOf(World(wf, gcs), dirs, sr, ir, cr)} :
                    /\ Outcome(c.w, "close", TRUE)
                    /\ dirs' = c.dirs
    /\ UNCHANGED <<rf, rop, call, auth, fsop, objects>>

\* GCSFileSystem._list_bucket(bucket): the listing is kept when every page
\* came; a failed request raises out of it
ListBucket(bucket, pages) ==
    /\ IF bucket \notin DOMAIN dirs /\ pages = "all"
       THEN dirs' = DictSet(dirs, bucket, BucketItems(bucket))
       ELSE UNCHANGED dirs
    /\ UNCHANGED <<rf, rop, wf, gcs, wop, call, auth, fsop, objects>>

\* GCSFileSystem.invalidate_cache(bucket), called by the user
Invalidate(bucket) ==
    /\ dirs' = InvalidateCache(dirs, bucket)
    /\ UNCHANGED <<rf, rop, wf, gcs, wop, call, auth, fsop, objects>>

IdleReader == [closed |-> TRUE]

IdleWriter == [closed |-> TRUE]

IdleGcs == [exists |-> FALSE]

IdleCall == [pc |-> "idle", log |-> << >>]

IdleAuth == [pc |-> "idle"]

\* no call made on the file system yet
FsNoOp ==
    [op |-> "none", path |-> << >>, to |-> << >>, exc |-> "none",
     out |-> << >>, requests |-> 0, met |-> {},
     issued |-> [k \in Buckets \cup {""} |-> 0],
     done |-> [k \in Buckets \cup {""} |-> 0]]

IdleStore == EmptyDict

InitWrite ==
    /\ \E bs \in 1..MaxWBlock, consistency \in {"none", "size", "md5"} :
            wf = NewWriter("b1", bs, consistency)
    /\ gcs = NewGcs
    /\ wop = WNoOp
    /\ dirs = EmptyDict
    /\ rf = IdleReader
    /\ rop = NoOp
    /\ call = IdleCall
    /\ auth = IdleAuth
    /\ fsop = FsNoOp
    /\ objects = IdleStore

NextWrite ==
    \/ \E n \in 1..MaxWrite : Write(n)
    \/ \E force \in BOOLEAN : Flush(force)
    \/ Close

SpecWrite == InitWrite /\ [][NextWrite]_vars

\* the write handle of a file system whose listings are in use
InitCache ==
    /\ wf = NewWriter("b1", OneShotMax, "none")
    /\ gcs = NewGcs
    /\ wop = WNoOp
    /\ dirs = EmptyDict
    /\ rf = IdleReader
    /\ rop = NoOp
    /\ call = IdleCall
    /\ auth = IdleAuth
    /\ fsop = FsNoOp
    /\ objects = IdleStore

NextCache ==
    \/ NextWrite
    \/ \E bucket \in Buckets, pages \in {"all", "failed"} :
            ListBucket(bucket, pages)
    \/ \E bucket \in Buckets \cup {""} : Invalidate(bucket)

SpecCache == InitCache /\ [][NextCache]_vars

InitRead ==
    /\ \E size \in 0..MaxSize, bs \in 1..MaxBlock : rf = NewReader(size, bs)
    /\ rop = NoOp
    /\ wf = IdleWriter
    /\ gcs = IdleGcs
    /\ wop = WNoOp
    /\ dirs = EmptyDict
    /\ call = IdleCall
    /\ auth = IdleAuth
    /\ fsop = FsNoOp
    /\ objects = IdleStore

NextRead ==
    \/ \E loc \in (0 - MaxLoc)..MaxLoc, whence \in 0..2 : Seek(loc, whence)
    \/ \E length \in (0 - 1)..MaxLen : Read(length)
    \/ CloseReader

SpecRead == InitRead /\ [][NextRead]_vars

\* ----------------------------------------------------- reading lines

MaxLineSize == 4    \* largest object read by lines
MaxLineBlock == 2   \* largest block_size of a handle read by lines

\* a handle just opened on an object of which any bytes may be newlines
InitLines ==
    /\ \E size \in 0..MaxLineSize, bs \in 1..MaxLineBlock :
            rf = NewReader(size, bs)
    /\ \E nl \in SUBSET (0..(MaxLineSize - 1)) :
            /\ \A i \in nl : i < rf.size
            /\ gcs = [exists |-> TRUE, newlines |-> nl]
    /\ rop = NoOp
    /\ wf = IdleWriter
    /\ wop = WNoOp
    /\ dirs = EmptyDict
    /\ call = IdleCall
    /\ auth = IdleAuth
    /\ fsop = FsNoOp
    /\ objects = IdleStore

NextLines ==
    \/ \E loc \in (0 - 1)..(MaxLineSize + 1) : Seek(loc, 0)
    \/ \E length \in {0 - 1, 1, 2} : Read(length)
    \/ \E length \in {0 - 1, 1, 2} : Readline(length, "ok")
    \/ NextLine

SpecLines == InitLines /\ [][NextLines]_vars

\* ------------------------------------------------- failing responses

MaxFetchSize == 2   \* largest object read while requests may fail

\* a handle just opened; any ranged GET may be answered with a failure
InitFetch ==
    /\ \E size \in 0..MaxFetchSize, bs \in 1..MaxLineBlock :
            rf = NewReader(size, bs)
    /\ gcs = [exists |-> TRUE, newlines |-> {1}]
    /\ rop = NoOp
    /\ wf = IdleWriter
    /\ wop = WNoOp
    /\ dirs = EmptyDict
    /\ call = IdleCall
    /\ auth = IdleAuth
    /\ fsop = FsNoOp
    /\ objects = IdleStore

NextFetch ==
    \/ \E loc \in (0 - 1)..(MaxFetchSize + 1) : Seek(loc, 0)
    \/ \E length \in {0 - 1, 1, 2}, r \in FetchAnswers : ReadFrom(length, r)
    \/ \E r \in FetchAnswers : Readline(0 - 1, r)

SpecFetch == InitFetch /\ [][NextFetch]_vars

\* a read answered "ok" is the read of SpecRead
ReadFromIsRead ==
    [][rop'.op = "read" /\ ~rf.closed =>
        LET d == ReadOf([rf EXCEPT !.n = 0], rop'.len, "ok")
        IN  /\ rf' = [d.f EXCEPT !.n = 0]
            /\ rop'.out = d.out /\ rop'.reqs = d.f.n
            /\ rop'.windows = d.windows]_vars

\* C1: a read of b-a bytes that directly follows seek(a), with
\* a <= b <= size, returns the bytes of the object at offsets a .. b-1,
\* whatever calls came before.
C1_SeekReadReturnsSlice ==
    (rop.op = "read" /\ rop.exc = "none" /\ rop.prev = "seek"
        /\ rop.at + rop.len <= rf.size)
    => rop.out = Content(rop.at, rop.at + rop.len)

\* a read after a seek that had to take bytes from a window that had been
\* trimmed and then extended at both ends
C1_Witness ==
    /\ rop.op = "read" /\ rop.exc = "none" /\ rop.prev = "seek"
    /\ rop.at + rop.len <= rf.size
    /\ rop.at >= 1
    /\ rop.len >= 2
    /\ Len(rop.out) = rop.len
    /\ rop.reqs >= 1
    /\ rf.start > 0
    /\ rf.start % FetchAlign # 0

\* C22: a seek to a position before the start of the object raises
\* ValueError and leaves the position and the window as they were, a seek
\* to any other position sets it, and no seek sends a request.
C22_SeekBeforeStartRaises ==
    [][rop'.op = "seek" =>
            /\ rop'.reqs = 0
            /\ rop'.at < 0 <=> rop'.exc = "ValueError"
            /\ rop'.at < 0 => rf' = rf
            /\ rop'.at >= 0 => rf' = [rf EXCEPT !.loc = rop'.at]]_vars

\* a seek before the start refused on a handle that has a window and has
\* read past its first byte
C22_Witness ==
    /\ rop.op = "seek" /\ rop.exc = "ValueError" /\ rop.at < 0
    /\ rf.start # None /\ rf.loc > 0 /\ rf.cache # << >>

\* C23: on a read handle that has been closed, read and seek fail with an
\* error, change no field of the handle and send no request.
C23_ClosedHandleRefuses ==
    [][(rf.closed /\ rop'.op \in {"read", "seek"}) =>
            /\ rop'.exc # "none"
            /\ rf' = rf
            /\ rop'.reqs = 0]_vars

\* a call that has sliced the cache and returned
Sliced ==
    /\ rop.op \in {"read", "readline", "next"}
    /\ rop.exc \in {"none", "StopIteration"}

\* what trimming has left: the window starts a whole number of blocks
\* after the start of the window the call sliced, not after the position,
\* and the first byte of the cache is the byte at the start of the window
TrimmedWhole ==
    LET last == rop.windows[Len(rop.windows)]
    IN  /\ rf.start >= last.start
        /\ (rf.start - last.start) % rf.blocksize = 0
        /\ rf.end = last.end
        /\ rf.start <= rf.loc
        /\ rf.cache # << >> => rf.cache[1] = rf.start

\* C24: whenever read or readline slices the cache at position loc the
\* window satisfies start <= loc <= end, and the trimming of read leaves
\* start <= loc and the byte at offset start first in the cache.
C24_WindowHoldsPosition ==
    Sliced =>
        /\ \A k \in DOMAIN rop.windows :
                /\ rop.windows[k].start <= rop.at
                /\ rop.at <= rop.windows[k].end
        /\ TrimmedWhole

\* C24 as amended: at every slice start <= loc, and loc <= end unless the
\* window already reaches past the end of the object, where no request is
\* sent for a position past the window and the slice is empty; the
\* trimming of read leaves start <= loc and the byte at offset start
\* first in the cache.
C24_WindowHoldsPositionInObject ==
    Sliced =>
        /\ \A k \in DOMAIN rop.windows :
                /\ rop.windows[k].start <= rop.at
                /\ \/ rop.at <= rop.windows[k].end
                   \/ /\ rop.windows[k].end > rf.size
                      /\ rop.out = << >>
        /\ TrimmedWhole

\* a readline that grew the window to find its newline, and whose read
\* trimmed a block behind the position
C24_Witness ==
    /\ rop.op = "readline" /\ rop.exc = "none"
    /\ Len(rop.windows) >= 3
    /\ rop.windows[1].end < rop.windows[2].end
    /\ rop.out # << >>
    /\ rf.start > rop.windows[Len(rop.windows)].start

\* the offset after the line that starts at offset p: after its newline,
\* or the end of the object
LineEnd(p) ==
    LET later == {i \in gcs.newlines : i >= p}
    IN  IF later = {} THEN rf.size
        ELSE (CHOOSE i \in later : \A j \in later : i <= j) + 1

\* the line of the object that starts at offset p
LineAt(p) == IF p >= rf.size THEN << >> ELSE Content(p, LineEnd(p))

RECURSIVE Concat(_)
Concat(lines) ==
    IF lines = << >> THEN << >> ELSE Head(lines) \o Concat(Tail(lines))

\* C26: readline returns after finitely many passes of its loop, the end
\* of the window growing at each; readline() returns the line at the
\* position, and __next__ called again and again from position p returns
\* non-empty lines, each but possibly the last ending in a newline, that
\* make up content[p:size], and then signals StopIteration.
C26_ReadlineTerminates ==
    /\ rop.exc # "unfinished"
    /\ rop.op \in {"readline", "next"} =>
            /\ \A k \in 1..(Len(rop.windows) - 2) :
                    rop.windows[k].end < rop.windows[k + 1].end
            /\ Len(rop.windows) - 1 <= rf.size + 2
            /\ rop.len < 0 =>
                    /\ rop.out = LineAt(rop.at)
                    /\ rf.loc = rop.at + Len(rop.out)
    /\ rop.op = "next" =>
            /\ Concat(rop.got) = Content(rop.from, Max(rop.from, rf.loc))
            /\ Len(rop.got) <= rf.size + 1
            /\ \A k \in 1..(Len(rop.got) - 1) :
                    /\ rop.got[k] # << >>
                    /\ \/ rop.got[k][Len(rop.got[k])] \in gcs.newlines
                       \/ k = Len(rop.got) - 1 /\ rop.out = << >>
            /\ rop.exc = "StopIteration" <=> rop.out = << >>
            /\ rop.exc = "StopIteration" =>
                    Concat(rop.got) = Content(rop.from, Max(rop.from, rf.size))

\* the iteration over an object of two lines and a rest without newline,
\* ended by StopIteration
C26_Witness ==
    /\ rop.op = "next" /\ rop.exc = "StopIteration"
    /\ rop.from = 0 /\ rf.size = 4
    /\ rop.got = <<<<0, 1>>, <<2>>, <<3>>, << >>>>
    /\ gcs.newlines = {1, 2}

\* C25: exists turns only the failure of a missing resource into False:
\* when a listing request of the call fails with anything else (access
\* denied, bad request, a server error), exists does not answer False.
C25_ExistsHidesOnlyMissing ==
    (fsop.op = "exists" /\ fsop.met \ {"FileNotFoundError"} # {}) =>
        fsop.out # <<FALSE>>

\* C27: a flush that is not forced uploads only when the buffer holds at
\* least block_size bytes: with a smaller buffer, empty or not, it sends no
\* request and leaves the buffer, the offset and the session alone.
C27_SmallFlushSendsNothing ==
    [][(wop'.op = "flush" /\ ~wop'.force /\ ~wf.closed
            /\ wf.pos < wf.blocksize) =>
                /\ wop'.asked = {}
                /\ wf'.buffer = wf.buffer
                /\ wf'.offset = wf.offset
                /\ wf'.location = wf.location]_vars

\* C28: one forced flush, called by the user or by close, completes the
\* object by one protocol: it never sends both the one-shot upload and a
\* chunk of the resumable session.
C28_OneProtocolPerForcedFlush ==
    (wop.op \in {"flush", "close"} /\ wop.force) =>
        ~({"simple", "chunk"} \subseteq wop.asked)

\* C30: close() on a handle that a flush(force=True) completed returns
\* normally, sends no request, marks the handle closed and invalidates the
\* listing of its bucket; close() on a closed handle changes nothing.
C30_CloseAfterForcedFlush ==
    [][wop'.op = "close" =>
            /\ (wop.finalized /\ ~wf.closed) =>
                    /\ wop'.exc = "none"
                    /\ wop'.asked = {}
                    /\ wf'.closed
                    /\ dirs' = InvalidateCache(dirs, wf.bucket)
            /\ wf.closed => (wf' = wf /\ dirs' = dirs /\ wop'.asked = {})]_vars

\* C29: a call whose ranged GET is answered with a failure raises, and no
\* byte of the body of a failed response is in the window or in what the
\* call returns.
C29_FailedFetchRaises ==
    /\ (rop.op \in {"read", "readline"} /\ rop.answer # "ok"
            /\ rop.reqs > 0) => rop.exc # "none"
    /\ \A i \in DOMAIN rf.cache : rf.cache[i] >= 0
    /\ \A i \in DOMAIN rop.out : rop.out[i] >= 0

\* -------------------------------------------------------------- _call

\* GCSFileSystem.retries
retries == 4

MaxCalls == 2       \* calls made one after the other

\* the status class of a response that is not ok whose body names the
\* error code class e, or names none
StatusOf(e) ==
    IF e = "5xx" THEN {"5xx"} ELSE IF e = "none" THEN {"5xx", "4xx"}
    ELSE {"4xx"}

\* what one HTTP request of _call can come to: the request raising a
\* RequestException (net says of which kind), or a response with r.ok,
\* its status class, the words str(r.content) contains, the class of the
\* code of r.json()['error'] if the body has one, and whether the body is
\* JSON
Responses ==
    {[net |-> n, ok |-> FALSE, status |-> "none", nf |-> FALSE, fb |-> FALSE,
      inv |-> FALSE, err |-> "none", json |-> FALSE] :
            n \in {"transient", "other"}}
    \cup {[net |-> "none", ok |-> TRUE, status |-> "2xx", nf |-> FALSE,
           fb |-> FALSE, inv |-> FALSE, err |-> "none", json |-> j] :
            j \in BOOLEAN}
    \cup UNION {{[net |-> "none", ok |-> FALSE, status |-> st, nf |-> a,
                  fb |-> b, inv |-> c, err |-> e, json |-> (e # "none")] :
                    a \in BOOLEAN, b \in BOOLEAN, c \in BOOLEAN,
                    st \in StatusOf(e)} :
                 e \in {"none", "5xx", "transient", "permanent"}}

\* validate_response(r, path): the exception it raises, or "none"
ValidateResponse(r) ==
    IF r.ok THEN "none"
    ELSE IF r.nf THEN "FileNotFoundError"
    ELSE IF r.fb THEN "IOError"
    ELSE IF r.inv THEN "ValueError"
    ELSE IF r.err # "none" THEN "HtmlError"
    ELSE "RuntimeError"

\* what the try block of _call raises on r
Raised(r) ==
    IF r.net # "none" THEN "RequestException" ELSE ValidateResponse(r)

\* utils.is_retriable(e), e raised on r
IsRetriable(e, r) ==
    \/ e = "RequestException" /\ r.net = "transient"
    \/ e = "HtmlError" /\ r.err \in {"5xx", "transient"}

\* time.sleep(2**retry - 1)
BackoffMutNoWait(retry) == 0

Backoff(retry) == 2 ^ retry - 1

\* the except clause of _call for the exception e raised on r in attempt
\* retry: "continue", "raise", or "uncaught"
HandlerMutRetryAll(e, r, retry) ==
    IF e \notin {"HtmlError", "RequestException"} THEN "uncaught"
    ELSE IF retry = retries - 1 THEN "raise"
    ELSE "continue"

HandlerMutNoLast(e, r, retry) ==
    IF e \notin {"HtmlError", "RequestException"} THEN "uncaught"
    ELSE IF IsRetriable(e, r) THEN "continue"
    ELSE "raise"

Handler(e, r, retry) ==
    IF e \notin {"HtmlError", "RequestException"} THEN "uncaught"
    ELSE IF retry = retries - 1 THEN "raise"
    ELSE IF IsRetriable(e, r) THEN "continue"
    ELSE "raise"

\* out = r.json(), or r.content when the body is no JSON
Result(r) == IF r.json THEN "json" ELSE "content"

\* _call entered: the loop about to run with retry = 0; log has one entry
\* per attempt made: the sleep before it, what it raised, whether
\* is_retriable holds of that, and what the body of the response parses to
NewCall(n) ==
    [pc |-> "loop", retry |-> 0, log |-> << >>, exc |-> "none",
     out |-> "none", calls |-> n]

\* one pass of the for loop of _call, the request coming to r
Attempt(r) ==
    LET e == Raised(r)
        h == Handler(e, r, call.retry)
        entry == [slept |-> Backoff(call.retry), exc |-> e,
                  retriable |-> (e # "none" /\ IsRetriable(e, r)),
                  body |-> Result(r), status |-> r.status]
        c1 == [call EXCEPT !.log = Append(@, entry)]
    IN  /\ call.pc = "loop"
        /\ call' =
             IF e = "none"
             THEN [c1 EXCEPT !.pc = "returned", !.out = Result(r)]
             ELSE IF h = "continue"
             THEN IF call.retry + 1 < retries
                  THEN [c1 EXCEPT !.retry = @ + 1]
                  ELSE [c1 EXCEPT !.pc = "returned", !.out = Result(r)]
             ELSE [c1 EXCEPT !.pc = "raised", !.exc = e]
        /\ UNCHANGED <<rf, rop, wf, gcs, wop, dirs, auth, fsop, objects>>

\* the caller calls _call again
CallAgain ==
    /\ call.pc \in {"returned", "raised"}
    /\ call.calls < MaxCalls
    /\ call' = NewCall(call.calls + 1)
    /\ UNCHANGED <<rf, rop, wf, gcs, wop, dirs, auth, fsop, objects>>

InitCall ==
    /\ call = NewCall(1)
    /\ auth = IdleAuth
    /\ fsop = FsNoOp
    /\ objects = IdleStore
    /\ rf = IdleReader
    /\ rop = NoOp
    /\ wf = IdleWriter
    /\ gcs = IdleGcs
    /\ wop = WNoOp
    /\ dirs = EmptyDict

NextCall ==
    \/ \E r \in Responses : Attempt(r)
    \/ CallAgain

\* every request gets its response or raises: the loop goes on
SpecCall ==
    InitCall /\ [][NextCall]_vars /\ WF_vars(\E r \in Responses : Attempt(r))

\* C11: a failure that is not transient is raised by the attempt it
\* occurred in, as it is, and that attempt is the call's last request.
C11_TerminalRaisedAtOnce ==
    \A k \in DOMAIN call.log :
        (call.log[k].exc # "none" /\ ~call.log[k].retriable) =>
            /\ k = Len(call.log)
            /\ call.pc = "raised"
            /\ call.exc = call.log[k].exc

\* a provider error that is not transient raised by the second attempt,
\* the first having failed with a transient one
C11_Witness ==
    /\ Len(call.log) = 2
    /\ call.log[1].retriable
    /\ call.log[2].exc = "HtmlError" /\ ~call.log[2].retriable
    /\ call.pc = "raised" /\ call.exc = "HtmlError"

\* C12: a response of the 5xx class to an attempt that is not the last
\* does not end the call with an error, whatever its body.
C12_ServerErrorRetried ==
    \A k \in DOMAIN call.log :
        (call.log[k].status = "5xx" /\ k < retries) =>
            ~(k = Len(call.log) /\ call.pc = "raised")

\* C9: a call makes at most 4 requests, the k-th after a sleep of
\* 2^(k-1) - 1 seconds, none after a request whose response validated, and
\* it ends.
C9_BoundedBackoff ==
    /\ [](/\ Len(call.log) <= 4
          /\ call.pc = "loop" => Len(call.log) <= 3
          /\ \A k \in DOMAIN call.log :
                /\ call.log[k].slept = 2 ^ (k - 1) - 1
                /\ call.log[k].exc = "none" =>
                      (k = Len(call.log) /\ call.pc = "returned"))
    /\ (call.pc = "loop" ~> call.pc \in {"returned", "raised"})

\* the fourth request of a call, made after sleeping 0, 1, 3 and 7 seconds
C9_Witness ==
    /\ Len(call.log) = 4
    /\ call.log[4].slept = 7
    /\ call.log[3].exc = "HtmlError"
    /\ call.pc = "returned"

\* C10: when retriable failures are followed by a response that validates,
\* the call returns that response's parsed result and raises nothing; when
\* all 4 attempts fail retriably, the call raises the last attempt's error.
C10_RetryThenResult ==
    LET n == Len(call.log)
    IN  /\ (n >= 2 /\ call.log[n].exc = "none"
                /\ \A k \in 1..(n - 1) : call.log[k].retriable)
            => (call.pc = "returned" /\ call.exc = "none"
                    /\ call.out = call.log[n].body)
        /\ (n = 4 /\ \A k \in 1..4 : call.log[k].retriable)
            => (call.pc = "raised" /\ call.exc = call.log[4].exc)

\* a call that returned on its third attempt, and one that raised on its
\* fourth
C10_Witness ==
    /\ Len(call.log) = 3
    /\ call.log[1].retriable /\ call.log[2].retriable
    /\ call.pc = "returned" /\ call.out = "json"

C10_WitnessExhausted ==
    /\ Len(call.log) = 4
    /\ \A k \in 1..4 : call.log[k].retriable
    /\ call.pc = "raised" /\ call.exc = "RequestException"

\* ------------------------------------------------------------ names

\* A path or an object name is the sequence of its characters; a bucket
\* name is one character of it, and never "/" or "*".

\* s.startswith(p)
StartsWith(s, p) == Len(s) >= Len(p) /\ SubSeq(s, 1, Len(p)) = p

\* c in s
Contains(s, c) == \E i \in DOMAIN s : s[i] = c

\* s.index(c), for c in s
Index(s, c) == CHOOSE i \in DOMAIN s : s[i] = c /\ \A j \in 1..(i - 1) : s[j] # c

\* s.rindex(c), for c in s
RIndex(s, c) ==
    CHOOSE i \in DOMAIN s : s[i] = c /\ \A j \in (i + 1)..Len(s) : s[j] # c

\* s.rstrip('/')
RECURSIVE RStrip(_)
RStrip(s) ==
    IF s # << >> /\ s[Len(s)] = "/" THEN RStrip(SubSeq(s, 1, Len(s) - 1))
    ELSE s

\* s.replace('//', '/')
RECURSIVE Squeeze(_)
Squeeze(s) ==
    IF Len(s) < 2 THEN s
    ELSE IF s[1] = "/" /\ s[2] = "/"
    THEN <<"/">> \o Squeeze(SubSeq(s, 3, Len(s)))
    ELSE <<s[1]>> \o Squeeze(Tail(s))

\* s.split('/', 1)[0]
FirstSegment(s) ==
    IF Contains(s, "/") THEN SubSeq(s, 1, Index(s, "/") - 1) ELSE s

\* split_path(path): the bucket and the key, of a path written without
\* the gcs:// or gs:// in front
SplitPath(path) ==
    IF ~Contains(path, "/") THEN [bucket |-> path, key |-> << >>]
    ELSE [bucket |-> SubSeq(path, 1, Index(path, "/") - 1),
          key |-> SubSeq(path, Index(path, "/") + 1, Len(path))]

\* '/'.join([bucket, key])
Join(bucket, key) == bucket \o <<"/">> \o key

\* the key of self.dirs for a bucket
DictKey(bucket) == IF bucket = << >> THEN "" ELSE bucket[1]

\* an object as _list_bucket keeps it, and the entry ls makes up for a
\* directory
Object(name) == [name |-> name, storageClass |-> "STANDARD", size |-> 1]

Directory(name) == [name |-> name, storageClass |-> "DIRECTORY", size |-> 0]

\* [f['name'] for f in out]
NamesOf(out) == [i \in DOMAIN out |-> out[i].name]

\* the loop of ls without the test 'directory not in out'
RECURSIVE LsLoopMutNoDedup(_, _, _)
LsLoopMutNoDedup(files, n, path) ==
    IF n = 0 THEN << >>
    ELSE LET out == LsLoopMutNoDedup(files, n - 1, path)
             f == files[n]
             slash == path # << >> /\ path[Len(path)] = "/"
             seek == IF slash THEN path ELSE path \o <<"/">>
             l == Len(seek)
             bit == IF slash THEN << >> ELSE <<"/">>
             rest == PyFrom(f.name, l)
             directory == Directory(path \o bit \o FirstSegment(rest) \o <<"/">>)
         IN  IF \/ StartsWith(f.name, seek) /\ ~Contains(rest, "/")
                \/ f.name = path
             THEN Append(out, f)
             ELSE IF StartsWith(f.name, seek) /\ Contains(rest, "/")
             THEN Append(out, directory)
             ELSE out

\* the loop of ls over files[1..n], path being a bucket and a key joined
RECURSIVE LsLoop(_, _, _)
LsLoop(files, n, path) ==
    IF n = 0 THEN << >>
    ELSE LET out == LsLoop(files, n - 1, path)
             f == files[n]
             slash == path # << >> /\ path[Len(path)] = "/"
             seek == IF slash THEN path ELSE path \o <<"/">>
             l == Len(seek)
             bit == IF slash THEN << >> ELSE <<"/">>
             rest == PyFrom(f.name, l)
             directory == Directory(path \o bit \o FirstSegment(rest) \o <<"/">>)
         IN  IF \/ StartsWith(f.name, seek) /\ ~Contains(rest, "/")
                \/ f.name = path
             THEN Append(out, f)
             ELSE IF StartsWith(f.name, seek) /\ Contains(rest, "/")
             THEN IF \E i \in DOMAIN out : out[i] = directory THEN out
                  ELSE Append(out, directory)
             ELSE out

\* ls(path, detail=True) for a path other than '' and '/', files being
\* what _list_bucket returned
LsOf(files, path) ==
    LET sp == SplitPath(path)
    IN  LsLoop(files, Len(files), Join(sp.bucket, sp.key))

\* the test of walk with the "/" after the path left out
WalkTestMutNoSlash(name, path) == StartsWith(name, path) \/ name = path

\* walk(path, detail=True), files being what _list_bucket returned
WalkTest(name, path) ==
    IF path[Len(path)] = "/"
    THEN StartsWith(name, path) \/ name = path
    ELSE StartsWith(name, path \o <<"/">>) \/ name = path

WalkOf(files, path) ==
    LET sp == SplitPath(path)
        joined == Join(sp.bucket, sp.key)
        Keep(f) == WalkTest(f.name, joined)
    IN  SelectSeq(files, Keep)

\* the regular expression with '*' compiled to '.+' as '**' is
RECURSIVE CompileMutStarAny(_)
CompileMutStarAny(p) ==
    IF p = << >> THEN << >>
    ELSE IF Len(p) >= 2 /\ p[1] = "*" /\ p[2] = "*"
    THEN <<[t |-> "anyplus", c |-> ""]>> \o CompileMutStarAny(SubSeq(p, 3, Len(p)))
    ELSE IF p[1] = "*"
    THEN <<[t |-> "anyplus", c |-> ""]>> \o CompileMutStarAny(Tail(p))
    ELSE IF p[1] \in {"?", "."}
    THEN <<[t |-> "any", c |-> ""]>> \o CompileMutStarAny(Tail(p))
    ELSE <<[t |-> "lit", c |-> p[1]]>> \o CompileMutStarAny(Tail(p))

\* the regular expression glob compiles from a path: '**' gives '.+',
\* '*' gives '[^/]+', '?' and '.' give '.', any other character itself
RECURSIVE Compile(_)
Compile(p) ==
    IF p = << >> THEN << >>
    ELSE IF Len(p) >= 2 /\ p[1] = "*" /\ p[2] = "*"
    THEN <<[t |-> "anyplus", c |-> ""]>> \o Compile(SubSeq(p, 3, Len(p)))
    ELSE IF p[1] = "*"
    THEN <<[t |-> "nonslashplus", c |-> ""]>> \o Compile(Tail(p))
    ELSE IF p[1] \in {"?", "."}
    THEN <<[t |-> "any", c |-> ""]>> \o Compile(Tail(p))
    ELSE <<[t |-> "lit", c |-> p[1]]>> \o Compile(Tail(p))

\* re.match of '^' + pattern + '$' on s
RECURSIVE Match(_, _)
Match(pattern, s) ==
    IF pattern = << >> THEN s = << >>
    ELSE LET h == Head(pattern)
             more == Tail(pattern)
         IN  CASE h.t = "lit" ->
                    s # << >> /\ s[1] = h.c /\ Match(more, Tail(s))
               [] h.t = "any" -> s # << >> /\ Match(more, Tail(s))
               [] h.t = "anyplus" ->
                    \E k \in 1..Len(s) : Match(more, SubSeq(s, k + 1, Len(s)))
               [] h.t = "nonslashplus" ->
                    \E k \in 1..Len(s) :
                        /\ \A i \in 1..k : s[i] # "/"
                        /\ Match(more, SubSeq(s, k + 1, Len(s)))

\* the path glob matches against, from the path it was given
GlobPath(path) ==
    LET sp == SplitPath(RStrip(path))
        joined == Join(sp.bucket, sp.key)
    IN  IF Contains(joined, "*") THEN joined
        ELSE RStrip(joined) \o <<"/", "*">>

\* the root glob walks
GlobRoot(gp) ==
    LET before == SubSeq(gp, 1, Index(gp, "*") - 1)
    IN  IF Contains(before, "/") THEN SubSeq(gp, 1, RIndex(before, "/"))
        ELSE << >>

\* the names glob keeps of allfiles, the names walk(root) returned
GlobFilter(allfiles, gp) ==
    LET pattern == Compile(RStrip(Squeeze(gp)))
        Keep(f) == Match(pattern, RStrip(Squeeze(f)))
    IN  SelectSeq(allfiles, Keep)

\* --------------------------------------------------- file system calls

MaxPages == 2       \* most pages the provider splits a listing into

\* the exceptions a _call may raise out of a file system call
Errs == {"FileNotFoundError", "ValueError", "HtmlError"}

\* what the requests of one listing come to: the pages the provider splits
\* it into, and which request fails, with what (0: none fails)
NoFail == [pages |-> 1, failAt |-> 0, err |-> "none"]

ListAnswers ==
    {[pages |-> n, failAt |-> 0, err |-> "none"] : n \in 1..MaxPages}
    \cup {[pages |-> n, failAt |-> n, err |-> e] :
            n \in 1..MaxPages, e \in Errs}

\* the answers that matter to a listing for the key of the cache: none
\* when the cache has the entry, for no request is sent
AnswersFor(key) == IF key \in DOMAIN dirs THEN {NoFail} ELSE ListAnswers

\* what the request of a mutating call comes to
CallAnswers == {"ok", "HtmlError"}

\* a call on the file system in progress: the listing cache, the buckets
\* and keys the provider holds, the exception raised, the list-objects
\* requests sent, the value returned; and per key of the cache the listing
\* sequences started (issued) and completed (done) since the entry was
\* last invalidated, each counted up to 2; met is the exceptions that the
\* listing requests of the call raised, caught or not
FsWorld(d, st, f) ==
    [dirs |-> d, store |-> st, exc |-> "none", requests |-> 0, out |-> << >>,
     met |-> {}, issued |-> f.issued, done |-> f.done]

Count(n) == IF n < 2 THEN n + 1 ELSE 2

\* the items of a bucket's listing, named bucket/key
ItemsOf(bucket, keys) ==
    [i \in DOMAIN keys |-> Object(<<bucket, "/">> \o keys[i])]

\* _list_bucket(bucket) without the test 'bucket not in self.dirs'
ListBucketOfMutNoCache(w, bucket, a) ==
    LET known == bucket \in DOMAIN w.store
        sent == IF ~known THEN 1
                ELSE IF a.failAt \in 1..a.pages THEN a.failAt ELSE a.pages
        w1 == [w EXCEPT !.requests = @ + sent,
                        !.issued[bucket] = Count(@)]
    IN  IF w.exc # "none" THEN [w |-> w, files |-> << >>]
        ELSE IF ~known
        THEN [w |-> [w1 EXCEPT !.exc = "FileNotFoundError",
                               !.met = @ \cup {"FileNotFoundError"}],
              files |-> << >>]
        ELSE IF a.failAt \in 1..a.pages
        THEN [w |-> [w1 EXCEPT !.exc = a.err, !.met = @ \cup {a.err}],
              files |-> << >>]
        ELSE LET items == ItemsOf(bucket, w.store[bucket])
             IN  [w |-> [w1 EXCEPT !.dirs = DictSet(@, bucket, items),
                                   !.done[bucket] = Count(@)],
                  files |-> items]

\* _list_bucket(bucket), the provider answering a; files is what it returns
ListBucketOf(w, bucket, a) ==
    LET known == bucket \in DOMAIN w.store
        sent == IF ~known THEN 1
                ELSE IF a.failAt \in 1..a.pages THEN a.failAt ELSE a.pages
        w1 == [w EXCEPT !.requests = @ + sent,
                        !.issued[bucket] = Count(@)]
    IN  IF w.exc # "none" THEN [w |-> w, files |-> << >>]
        ELSE IF bucket \in DOMAIN w.dirs
        THEN [w |-> w, files |-> w.dirs[bucket]]
        ELSE IF ~known
        THEN [w |-> [w1 EXCEPT !.exc = "FileNotFoundError",
                               !.met = @ \cup {"FileNotFoundError"}],
              files |-> << >>]
        ELSE IF a.failAt \in 1..a.pages
        THEN [w |-> [w1 EXCEPT !.exc = a.err, !.met = @ \cup {a.err}],
              files |-> << >>]
        ELSE LET items == ItemsOf(bucket, w.store[bucket])
             IN  [w |-> [w1 EXCEPT !.dirs = DictSet(@, bucket, items),
                                   !.done[bucket] = Count(@)],
                  files |-> items]

\* the buckets the provider lists, in the order of their names
RECURSIVE BucketList(_, _)
BucketList(order, st) ==
    IF order = << >> THEN << >>
    ELSE (IF Head(order) \in DOMAIN st THEN <<Object(<<Head(order)>>)>>
          ELSE << >>) \o BucketList(Tail(order), st)

\* _list_buckets(), the provider answering a
ListBucketsOf(w, a) ==
    LET failed == a.failAt = 1
        swallowed == a.err \in {"FileNotFoundError", "IOError", "ValueError"}
        items == BucketList(<<"b1", "b2">>, w.store)
    IN  IF w.exc # "none" THEN [w |-> w, files |-> << >>]
        ELSE IF "" \in DOMAIN w.dirs THEN [w |-> w, files |-> w.dirs[""]]
        ELSE IF failed /\ ~swallowed
        THEN [w |-> [w EXCEPT !.exc = a.err, !.met = @ \cup {a.err}],
              files |-> << >>]
        ELSE IF failed
        THEN [w |-> [w EXCEPT !.dirs = DictSet(@, "", << >>),
                              !.met = @ \cup {a.err}],
              files |-> << >>]
        ELSE [w |-> [w EXCEPT !.dirs = DictSet(@, "", items),
                              !.done[""] = Count(@)],
              files |-> items]

\* invalidate_cache(bucket) within a call
InvalidateOf(w, bucket) ==
    IF bucket \in {"/", ""}
    THEN [w EXCEPT !.dirs = InvalidateCache(@, bucket),
                   !.issued = [k \in DOMAIN @ |-> 0],
                   !.done = [k \in DOMAIN @ |-> 0]]
    ELSE [w EXCEPT !.dirs = InvalidateCache(@, bucket),
                   !.issued[bucket] = 0, !.done[bucket] = 0]

\* ls(path, detail=True)
LsCall(w, path, a) ==
    IF path \in {<< >>, <<"/">>}
    THEN LET r == ListBucketsOf(w, a) IN [r.w EXCEPT !.out = r.files]
    ELSE LET r == ListBucketOf(w, DictKey(SplitPath(path).bucket), a)
         IN  IF r.w.exc # "none" THEN r.w
             ELSE [r.w EXCEPT !.out = LsOf(r.files, path)]

\* walk(path, detail=True)
WalkCall(w, path, a) ==
    LET bucket == SplitPath(path).bucket
        r == ListBucketOf(w, DictKey(bucket), a)
    IN  IF bucket = << >> THEN [w EXCEPT !.exc = "ValueError"]
        ELSE IF r.w.exc # "none" THEN r.w
        ELSE [r.w EXCEPT !.out = WalkOf(r.files, path)]

\* glob(path): the names it returns
GlobCall(w, path, a) ==
    LET gp == GlobPath(path)
        r == WalkCall(w, GlobRoot(gp), a)
    IN  IF Contains(SplitPath(RStrip(path)).bucket, "*")
        THEN [w EXCEPT !.exc = "ValueError"]
        ELSE IF r.exc # "none" THEN r
        ELSE [r EXCEPT !.out = GlobFilter(NamesOf(r.out), gp)]

\* info(path)
InfoCall(w, path, a) ==
    LET sp == SplitPath(path)
        joined == Join(sp.bucket, sp.key)
        IsIt(f) == f.name = joined
        Found(r, out) ==
            IF r.exc # "none" THEN r
            ELSE IF out # << >> THEN [r EXCEPT !.out = <<out[1]>>]
            ELSE [r EXCEPT !.exc = "FileNotFoundError", !.out = << >>]
        OfLs(r) == Found(r, SelectSeq(r.out, IsIt))
    IN  OfLs(LsCall(w, joined, a))

\* exists(path); a answers the listing of the buckets, a2 that of the
\* bucket
ExistsCall(w, path, a, a2) ==
    LET sp == SplitPath(path)
        IsIt(f) == f.name = sp.bucket
        OfInfo(i) ==
            IF i.exc = "FileNotFoundError"
            THEN [i EXCEPT !.exc = "none", !.out = <<FALSE>>]
            ELSE IF i.exc # "none" THEN i
            ELSE [i EXCEPT !.out = <<TRUE>>]
        OfBucket(l) ==
            IF l.exc \in {"FileNotFoundError", "IOError", "ValueError"}
            THEN [l EXCEPT !.exc = "none", !.out = <<FALSE>>]
            ELSE IF l.exc # "none" THEN l
            ELSE [l EXCEPT !.out = <<TRUE>>]
        OfBuckets(r) ==
            IF r.exc = "FileNotFoundError"
            THEN [r EXCEPT !.exc = "none", !.out = <<FALSE>>]
            ELSE IF r.exc # "none" THEN r
            ELSE IF SelectSeq(r.out, IsIt) # << >>
            THEN [r EXCEPT !.out = <<TRUE>>]
            ELSE OfBucket(ListBucketOf(r, DictKey(sp.bucket), a2).w)
    IN  IF sp.key # << >> THEN OfInfo(InfoCall(w, path, a2))
        ELSE OfBuckets(LsCall(w, << >>, a))

\* the keys of a bucket with one more, and with one less
AddKey(keys, key) ==
    IF \E i \in DOMAIN keys : keys[i] = key THEN keys ELSE Append(keys, key)

DropKey(keys, key) == LET Other(k) == k # key IN SelectSeq(keys, Other)

HasKey(st, bucket, key) ==
    bucket \in DOMAIN st /\ \E i \in DOMAIN st[bucket] : st[bucket][i] = key

\* one _call of a mutating call: the provider refuses what it cannot do
\* (pre says whether it can), and answers a otherwise
Refusal(pre, a) == IF a = "ok" /\ ~pre THEN "FileNotFoundError" ELSE a

\* mkdir(bucket)
MkdirCall(w, bucket, a) ==
    LET e == Refusal(bucket \notin DOMAIN w.store, a)
        st == DictSet(w.store, bucket, << >>)
    IN  IF e # "ok" THEN [w EXCEPT !.exc = e]
        ELSE InvalidateOf(InvalidateOf([w EXCEPT !.store = st], bucket), "")

\* rmdir(bucket)
RmdirCall(w, bucket, a) ==
    LET e == Refusal(bucket \in DOMAIN w.store /\ w.store[bucket] = << >>, a)
        Other(v) == v.name # <<bucket>>
        d1 == IF "" \in DOMAIN w.dirs
              THEN [w.dirs EXCEPT ![""] = SelectSeq(@, Other)]
              ELSE w.dirs
    IN  IF e # "ok" THEN [w EXCEPT !.exc = e]
        ELSE [w EXCEPT !.store = DictPop(@, bucket),
                       !.dirs = DictPop(d1, bucket),
                       !.issued[bucket] = 0, !.done[bucket] = 0]

\* rm(path)
RmOne(w, path, a) ==
    LET sp == SplitPath(path)
        bucket == DictKey(sp.bucket)
        e == Refusal(HasKey(w.store, bucket, sp.key), a)
    IN  IF w.exc # "none" THEN w
        ELSE IF e # "ok" THEN [w EXCEPT !.exc = e]
        ELSE InvalidateOf(
                [w EXCEPT !.store[bucket] = DropKey(@, sp.key)], bucket)

\* the loop of rm(path, recursive=True) over names[i..], the failAt-th
\* delete request answered with err
RECURSIVE RmEach(_, _, _, _, _)
RmEach(w, names, i, failAt, err) ==
    IF i > Len(names) \/ w.exc # "none" THEN w
    ELSE RmEach(RmOne(w, names[i], IF i = failAt THEN err ELSE "ok"),
                names, i + 1, failAt, err)

\* rm(path, recursive); la answers the listing walk may ask for
RmCall(w, path, recursive, a, la, failAt) ==
    LET r == WalkCall(w, path, la)
    IN  IF ~recursive THEN RmOne(w, path, a)
        ELSE IF r.exc # "none" THEN r
        ELSE [RmEach(r, NamesOf(r.out), 1, failAt, a) EXCEPT !.out = << >>]

\* copy(path1, path2)
CopyCall(w, path1, path2, a) ==
    LET s1 == SplitPath(path1)
        s2 == SplitPath(path2)
        b2 == DictKey(s2.bucket)
        e == Refusal(/\ HasKey(w.store, DictKey(s1.bucket), s1.key)
                     /\ b2 \in DOMAIN w.store, a)
    IN  IF w.exc # "none" THEN w
        ELSE IF e # "ok" THEN [w EXCEPT !.exc = e]
        ELSE [w EXCEPT !.store[b2] = AddKey(@, s2.key)]

\* mv(path1, path2)
MvCall(w, path1, path2, a, a2) ==
    RmOne(CopyCall(w, path1, path2, a), path1, a2)

\* merge(path, paths)
MergeCall(w, path, paths, a) ==
    LET sp == SplitPath(path)
        bucket == DictKey(sp.bucket)
        e == Refusal(/\ bucket \in DOMAIN w.store
                     /\ \A i \in DOMAIN paths :
                            HasKey(w.store, bucket, SplitPath(paths[i]).key),
                     a)
    IN  IF e # "ok" THEN [w EXCEPT !.exc = e]
        ELSE [w EXCEPT !.store[bucket] = AddKey(@, sp.key)]

\* the outcome w of a call on the file system becomes the state
FsOutcome(w, op, path, to) ==
    /\ dirs' = w.dirs
    /\ objects' = w.store
    /\ fsop' = [op |-> op, path |-> path, to |-> to, exc |-> w.exc,
                out |-> w.out, requests |-> w.requests, met |-> w.met,
                issued |-> w.issued, done |-> w.done]
    /\ UNCHANGED <<rf, rop, wf, gcs, wop, call, auth>>

Ls(path, a) ==
    \E w \in {LsCall(FsWorld(dirs, objects, fsop), path, a)} :
        FsOutcome(w, "ls", path, << >>)

Walk(path, a) ==
    \E w \in {WalkCall(FsWorld(dirs, objects, fsop), path, a)} :
        FsOutcome(w, "walk", path, << >>)

Glob(path, a) ==
    \E w \in {GlobCall(FsWorld(dirs, objects, fsop), path, a)} :
        FsOutcome(w, "glob", path, << >>)

Info(path, a) ==
    \E w \in {InfoCall(FsWorld(dirs, objects, fsop), path, a)} :
        FsOutcome(w, "info", path, << >>)

Exists(path, a, a2) ==
    \E w \in {ExistsCall(FsWorld(dirs, objects, fsop), path, a, a2)} :
        FsOutcome(w, "exists", path, << >>)

Mkdir(bucket, a) ==
    \E w \in {MkdirCall(FsWorld(dirs, objects, fsop), bucket, a)} :
        FsOutcome(w, "mkdir", <<bucket>>, << >>)

Rmdir(bucket, a) ==
    \E w \in {RmdirCall(FsWorld(dirs, objects, fsop), bucket, a)} :
        FsOutcome(w, "rmdir", <<bucket>>, << >>)

Rm(path, recursive, a, la, failAt) ==
    \E w \in {RmCall(FsWorld(dirs, objects, fsop), path, recursive, a, la,
                     failAt)} :
        FsOutcome(w, "rm", path, << >>)

Copy(path1, path2, a) ==
    \E w \in {CopyCall(FsWorld(dirs, objects, fsop), path1, path2, a)} :
        FsOutcome(w, "copy", path1, path2)

Mv(path1, path2, a, a2) ==
    \E w \in {MvCall(FsWorld(dirs, objects, fsop), path1, path2, a, a2)} :
        FsOutcome(w, "mv", path1, path2)

Merge(path, paths, a) ==
    \E w \in {MergeCall(FsWorld(dirs, objects, fsop), path, paths, a)} :
        FsOutcome(w, "merge", path, << >>)

\* invalidate_cache(bucket) called by the user; None is written ""
InvalidateCacheCall(bucket) ==
    \E w \in {InvalidateOf(FsWorld(dirs, objects, fsop), bucket)} :
        FsOutcome(w, "invalidate_cache", <<bucket>>, << >>)

\* the paths given to the calls: a bucket, or a key in it
KeyA == <<"a">>

KeyC == <<"c">>

PathOf(bucket, key) == <<bucket, "/">> \o key

ObjectPaths == {PathOf(b, KeyA) : b \in Buckets}

BrowsePaths == {<<b>> : b \in Buckets} \cup ObjectPaths

\* a file system just made, the provider holding two buckets. The calls
\* below copy, move, compose and delete the object a of a bucket and leave
\* its object c in place
InitNamespace ==
    /\ dirs = EmptyDict
    /\ objects = [b \in Buckets |-> IF b = "b1" THEN <<KeyC>> ELSE << >>]
    /\ fsop = FsNoOp
    /\ rf = IdleReader
    /\ rop = NoOp
    /\ wf = IdleWriter
    /\ gcs = IdleGcs
    /\ wop = WNoOp
    /\ call = IdleCall
    /\ auth = IdleAuth

NextNamespace ==
    \/ \E a \in AnswersFor("") : Ls(<< >>, a)
    \/ \E path \in BrowsePaths : \E a \in AnswersFor(path[1]) : Ls(path, a)
    \/ \E path \in BrowsePaths : \E a \in AnswersFor(path[1]) : Walk(path, a)
    \/ \E b \in Buckets : \E a \in AnswersFor(b) : Glob(<<b, "/", "*">>, a)
    \/ \E path \in ObjectPaths : \E a \in AnswersFor(path[1]) : Info(path, a)
    \/ \E path \in ObjectPaths : \E a2 \in AnswersFor(path[1]) :
            Exists(path, NoFail, a2)
    \/ \E b \in Buckets : \E a \in AnswersFor(""), a2 \in AnswersFor(b) :
            Exists(<<b>>, a, a2)
    \/ \E b \in Buckets, a \in CallAnswers : Mkdir(b, a)
    \/ \E b \in Buckets, a \in CallAnswers : Rmdir(b, a)
    \/ \E path \in ObjectPaths, a \in CallAnswers :
            Rm(path, FALSE, a, NoFail, 0)
    \/ \E b \in Buckets : \E la \in AnswersFor(b) :
            \/ Rm(PathOf(b, KeyA), TRUE, "ok", la, 0)
            \/ Rm(PathOf(b, KeyA), TRUE, "HtmlError", la, 1)
    \/ \E b2 \in Buckets, a \in CallAnswers :
            Copy(PathOf("b1", KeyC), PathOf(b2, KeyA), a)
    \/ \E b2 \in Buckets, a \in CallAnswers, a2 \in CallAnswers :
            Mv(PathOf("b1", KeyA), PathOf(b2, KeyA), a, a2)
    \/ \E b \in Buckets, a \in CallAnswers :
            Merge(PathOf(b, KeyA), <<PathOf(b, KeyC)>>, a)
    \/ \E bucket \in Buckets \cup {""} : InvalidateCacheCall(bucket)

SpecNamespace == InitNamespace /\ [][NextNamespace]_vars

\* C15: the cache has an entry for a key only if a listing of that key
\* was completed, every page fetched, since the key was last invalidated.
C15_EntryOnlyAfterFullListing ==
    \A k \in DOMAIN dirs : fsop.done[k] >= 1

\* the last step was a mutating call that changed the contents of bucket b:
\* created or deleted it, created or deleted an object in it, or wrote the
\* destination of a copy, a mv or a merge
Changed(b) ==
    \/ (b \in DOMAIN objects) # (b \in DOMAIN objects')
    \/ b \in DOMAIN objects /\ b \in DOMAIN objects' /\ objects'[b] # objects[b]
    \/ fsop'.op \in {"copy", "mv"} /\ fsop'.to[1] = b
    \/ fsop'.op = "merge" /\ fsop'.path[1] = b

\* C16: when mkdir, rmdir, rm, copy, mv or merge has returned normally, the
\* cache has no entry for a bucket whose contents the call changed.
C16_MutationInvalidates ==
    [][(/\ fsop'.op \in {"mkdir", "rmdir", "rm", "copy", "mv", "merge"}
        /\ fsop'.exc = "none") =>
            \A b \in Buckets : Changed(b) => b \notin DOMAIN dirs']_vars

\* invalidate_cache of a named bucket removes that entry and no other, and
\* of None removes every entry
InvalidateExact ==
    fsop'.op = "invalidate_cache" =>
        IF fsop'.path = <<"">> THEN dirs' = EmptyDict
        ELSE /\ DOMAIN dirs' = (DOMAIN dirs) \ {fsop'.path[1]}
             /\ \A k \in DOMAIN dirs' : dirs'[k] = dirs[k]

\* C17: between two invalidations of a bucket's entry the list-objects
\* request sequence is started at most once; invalidate_cache removes the
\* named entry only, or all of them.
C17_ListedAtMostOnce ==
    /\ [](\A b \in Buckets : fsop.issued[b] <= 1)
    /\ [][InvalidateExact]_vars

\* C17 as amended: between two invalidations of a bucket's entry the
\* sequence is completed at most once, and a call on a bucket whose
\* listing is cached sends no list-objects request and leaves the entry as
\* it is; a sequence that raised left no entry and is started again by the
\* next call.
C17_ListedOnceCompleted ==
    /\ [](\A b \in Buckets : fsop.done[b] <= 1)
    /\ [][(/\ fsop'.op \in {"ls", "walk", "glob", "info", "exists"}
           /\ fsop'.path # << >>
           /\ fsop'.path[1] \in DOMAIN dirs) =>
                /\ fsop'.requests = 0
                /\ fsop'.path[1] \in DOMAIN dirs'
                /\ dirs'[fsop'.path[1]] = dirs[fsop'.path[1]]]_vars
    /\ [][InvalidateExact]_vars

\* a walk served from the cache, the listing having been completed at the
\* second attempt
C17_Witness ==
    /\ fsop.op = "walk" /\ fsop.exc = "none" /\ fsop.requests = 0
    /\ fsop.path[1] \in DOMAIN dirs
    /\ fsop.issued[fsop.path[1]] = 2
    /\ fsop.done[fsop.path[1]] = 1
    /\ "b2" \in DOMAIN dirs /\ "b1" \in DOMAIN dirs

\* ------------------------------------------------- listings by name

\* The keys the provider may hold in bucket b1: the objects of the
\* documented example, an object named as a directory of theirs, objects
\* whose names end in "/", and one whose name has the directory's name as
\* a prefix with no "/" after it
KeyAB == <<"a", "/", "b", ".", "t">>

KeyACD == <<"a", "/", "c", "/", "d", ".", "t">>

KeyACE == <<"a", "/", "c", "/", "e", ".", "t">>

KeyASlash == <<"a", "/">>

KeyACSlash == <<"a", "/", "c", "/">>

KeyAbt == <<"a", "b", ".", "t">>

KeyPool == {KeyAB, KeyACD, KeyACE, KeyA, KeyASlash, KeyACSlash, KeyAbt}

MaxKeys == 4

\* the listings of at most MaxKeys objects, no key twice
Listings ==
    {l \in UNION {[1..n -> KeyPool] : n \in 0..MaxKeys} :
        \A i, j \in DOMAIN l : l[i] = l[j] => i = j}

\* the paths given to ls and walk, and the patterns given to glob
ListPaths ==
    {<<"b1">>, <<"b1", "/">>, PathOf("b1", KeyA), PathOf("b1", KeyASlash),
     PathOf("b1", <<"a", "/", "c">>), PathOf("b1", KeyACSlash),
     PathOf("b1", KeyAB)}

GlobPaths ==
    {PathOf("b1", <<"a", "/", "*", ".", "t">>),
     PathOf("b1", <<"a", "/", "*", "*">>),
     PathOf("b1", <<"a", "/", "*">>),
     PathOf("b1", <<"a", "*">>),
     PathOf("b1", <<"*">>),
     PathOf("b1", <<"*", "*">>),
     PathOf("b1", <<"a", "/", "?", ".", "t">>),
     PathOf("b1", <<"a", "/", "*", "/", "*">>),
     PathOf("b1", KeyA),
     PathOf("*", KeyA)}

\* a file system just made, bucket b1 holding any of the listings
InitNames ==
    /\ dirs = EmptyDict
    /\ \E l \in Listings :
            objects = [b \in Buckets |-> IF b = "b1" THEN l ELSE << >>]
    /\ fsop = FsNoOp
    /\ rf = IdleReader
    /\ rop = NoOp
    /\ wf = IdleWriter
    /\ gcs = IdleGcs
    /\ wop = WNoOp
    /\ call = IdleCall
    /\ auth = IdleAuth

NextNames ==
    \/ \E path \in ListPaths : Ls(path, NoFail)
    \/ \E path \in ListPaths : Walk(path, NoFail)
    \/ \E path \in GlobPaths : Glob(path, NoFail)

SpecNames == InitNames /\ [][NextNames]_vars

\* the prefix of a path: the path with one "/" after it, unless it ends
\* in one
PrefixOf(path) ==
    IF path[Len(path)] = "/" THEN path ELSE path \o <<"/">>

\* what follows the prefix in a name that starts with it
Remainder(name, path) ==
    SubSeq(name, Len(PrefixOf(path)) + 1, Len(name))

Under(name, path) == StartsWith(name, PrefixOf(path))

\* the elements of a sequence
RangeOf(s) == {s[i] : i \in DOMAIN s}

NoRepeat(s) == \A i, j \in DOMAIN s : s[i] = s[j] => i = j

\* the listing of bucket b1 the calls work on
Listed == dirs["b1"]

\* the direct children of a path and the directories ls makes up for the
\* deeper objects
ChildrenOf(path) ==
    {f \in RangeOf(Listed) :
        Under(f.name, path) /\ ~Contains(Remainder(f.name, path), "/")}

DirectoriesOf(path) ==
    {[name |-> PrefixOf(path) \o FirstSegment(Remainder(f.name, path))
                    \o <<"/">>,
      storageClass |-> "DIRECTORY", size |-> 0] :
        f \in {g \in RangeOf(Listed) :
                Under(g.name, path) /\ Contains(Remainder(g.name, path), "/")}}

LsDone == fsop.op = "ls" /\ fsop.exc = "none" /\ fsop.path # << >>

\* C18: ls(P) returns exactly the listed objects named P/ and a remainder
\* without "/", and one entry P/s/ of class DIRECTORY and size 0 for every
\* first segment s of a remainder with a "/" in it, none of them twice.
C18_LsChildrenAndDirectories ==
    LsDone =>
        /\ RangeOf(fsop.out) = ChildrenOf(fsop.path) \cup DirectoriesOf(fsop.path)
        /\ NoRepeat(fsop.out)

\* C18 as amended: ls(P) returns that and also the listed object named
\* exactly P, when there is one.
C18_LsChildrenDirectoriesAndSelf ==
    LsDone =>
        /\ RangeOf(fsop.out) =
                ChildrenOf(fsop.path) \cup DirectoriesOf(fsop.path)
                \cup {f \in RangeOf(Listed) : f.name = fsop.path}
        /\ NoRepeat(fsop.out)
        /\ \A i \in DOMAIN fsop.out :
                /\ fsop.out[i].storageClass # "DIRECTORY" =>
                        ~Contains(Remainder(fsop.out[i].name, fsop.path), "/")
                /\ fsop.out[i].storageClass = "DIRECTORY" =>
                        fsop.out[i].size = 0

\* ls('b1/a') of a, a/b.t, a/c/d.t and a/c/e.t: the object named b1/a,
\* one object under it and one directory, made up once for the two
\* objects it stands for
C18_Witness ==
    /\ LsDone /\ fsop.path = PathOf("b1", KeyA)
    /\ objects["b1"] = <<KeyA, KeyAB, KeyACD, KeyACE>>
    /\ fsop.out = <<Object(PathOf("b1", KeyA)), Object(PathOf("b1", KeyAB)),
                    Directory(PathOf("b1", KeyACSlash))>>

WalkDone == fsop.op = "walk" /\ fsop.exc = "none"

\* C19: walk(P) returns the listed objects whose name is P or starts with
\* P/, at any depth, each once and in the order of the listing, and no
\* directory entry; of a/b.t, a/c/d.t and a/c/e.t, walk('b1/a') returns
\* the three.
C19_WalkIsListingUnderPrefix ==
    WalkDone =>
        LET Keep(f) == f.name = fsop.path \/ Under(f.name, fsop.path)
        IN  /\ fsop.out = SelectSeq(Listed, Keep)
            /\ \A i \in DOMAIN fsop.out :
                    fsop.out[i].storageClass # "DIRECTORY"
            /\ (/\ objects["b1"] = <<KeyAB, KeyACD, KeyACE>>
                /\ fsop.path = PathOf("b1", KeyA)) =>
                    NamesOf(fsop.out) = <<PathOf("b1", KeyAB),
                                          PathOf("b1", KeyACD),
                                          PathOf("b1", KeyACE)>>

\* walk('b1/a') that returns the object named b1/a and a deeper one, and
\* leaves out b1/ab.t
C19_Witness ==
    /\ WalkDone /\ fsop.path = PathOf("b1", KeyA)
    /\ objects["b1"] = <<KeyAbt, KeyACD, KeyA>>
    /\ NamesOf(fsop.out) = <<PathOf("b1", KeyACD), PathOf("b1", KeyA)>>

GlobDone == fsop.op = "glob" /\ fsop.exc = "none"

\* the pattern glob works with: a path without "*" stands for path/*
PatternOf(path) ==
    IF Contains(path, "*") THEN path ELSE path \o <<"/", "*">>

\* the non-wildcard root of a pattern: up to its last "/" before the
\* first "*"
RootOf(p) ==
    LET ends == {i \in DOMAIN p : p[i] = "/" /\ \A j \in 1..i : p[j] # "*"}
    IN  SubSeq(p, 1, CHOOSE i \in ends : \A j \in ends : j <= i)

\* x agrees with y character by character, "?" and "." of x standing for
\* any character
Agree(x, y) ==
    Len(x) = Len(y) /\ \A k \in DOMAIN x : x[k] \in {"?", "."} \/ x[k] = y[k]

Stars(p) == {i \in DOMAIN p : p[i] = "*"}

\* name n matches a pattern p that has one "*": what stands for the "*"
\* is one or more characters, none of them "/"
OneStarMatch(p, n) ==
    LET i == CHOOSE k \in Stars(p) : TRUE
        pre == SubSeq(p, 1, i - 1)
        suf == SubSeq(p, i + 1, Len(p))
        m == SubSeq(n, i, Len(n) - Len(suf))
    IN  /\ Len(n) >= Len(p)
        /\ Agree(pre, SubSeq(n, 1, i - 1))
        /\ Agree(suf, SubSeq(n, Len(n) - Len(suf) + 1, Len(n)))
        /\ ~Contains(m, "/")

\* name n matches a pattern p that ends in "**" and has no other "*":
\* what stands for the "**" is one or more characters
TwoStarMatch(p, n) ==
    /\ Len(n) >= Len(p) - 1
    /\ Agree(SubSeq(p, 1, Len(p) - 2), SubSeq(n, 1, Len(p) - 2))

\* C20: a single "*" of a glob pattern stands for one or more characters
\* other than "/", and "**" for one or more characters of any kind:
\* glob('b1/a/*.t') returns b1/a/b.t and not b1/a/c/d.t, glob('b1/a/**')
\* returns both, and every name glob returns is a name walk returns for
\* the root of the pattern.
C20_GlobStars ==
    GlobDone =>
        LET p == PatternOf(fsop.path)
            walked == NamesOf(WalkOf(Listed, RootOf(p)))
            Norm(n) == RStrip(Squeeze(n))
        IN  /\ RangeOf(fsop.out) \subseteq RangeOf(walked)
            /\ Cardinality(Stars(p)) = 1 =>
                    \A n \in RangeOf(walked) :
                        n \in RangeOf(fsop.out) <=> OneStarMatch(p, Norm(n))
            /\ (/\ Cardinality(Stars(p)) = 2
                /\ Stars(p) = {Len(p) - 1, Len(p)}) =>
                    \A n \in RangeOf(walked) :
                        n \in RangeOf(fsop.out) <=> TwoStarMatch(p, Norm(n))
            /\ (/\ PathOf("b1", KeyAB) \in RangeOf(NamesOf(Listed))
                /\ fsop.path = PathOf("b1", <<"a", "/", "*", ".", "t">>)) =>
                    PathOf("b1", KeyAB) \in RangeOf(fsop.out)
            /\ fsop.path = PathOf("b1", <<"a", "/", "*", ".", "t">>) =>
                    PathOf("b1", KeyACD) \notin RangeOf(fsop.out)
            /\ (/\ {PathOf("b1", KeyAB), PathOf("b1", KeyACD)}
                        \subseteq RangeOf(NamesOf(Listed))
                /\ fsop.path = PathOf("b1", <<"a", "/", "*", "*">>)) =>
                    {PathOf("b1", KeyAB), PathOf("b1", KeyACD)}
                        \subseteq RangeOf(fsop.out)

\* glob('b1/a/*.t') of a/b.t, a/c/d.t and a/c/e.t returns b1/a/b.t alone
C20_Witness ==
    /\ GlobDone /\ fsop.path = PathOf("b1", <<"a", "/", "*", ".", "t">>)
    /\ objects["b1"] = <<KeyAB, KeyACD, KeyACE>>
    /\ fsop.out = <<PathOf("b1", KeyAB)>>

\* a pattern whose only wildcard characters are "?"
OnlyQuestionMarks(p) == Contains(p, "?") /\ ~Contains(p, "*")

\* C21: glob of a pattern whose only wildcard is "?" returns the listed
\* names that agree with the pattern character for character, "?" standing
\* for any one character; a pattern with a wildcard in its bucket is
\* refused with an error and no listing is requested for it.
C21_GlobQuestionMark ==
    /\ (GlobDone /\ OnlyQuestionMarks(fsop.path)) =>
            \A n \in RangeOf(NamesOf(Listed)) :
                n \in RangeOf(fsop.out) <=>
                    /\ Len(n) = Len(fsop.path)
                    /\ \A k \in DOMAIN n :
                            fsop.path[k] = "?" \/ fsop.path[k] = n[k]
    /\ (fsop.op = "glob" /\ Contains(SplitPath(fsop.path).bucket, "*")) =>
            fsop.exc = "ValueError" /\ fsop.requests = 0

\* -------------------------------------------------------- credentials

\* the 100 seconds of connect() before expiry, the 3600 seconds by which it
\* back-dates the 'cloud' token it makes up, and the 1 second it gives it
\* to live, in units of one clock tick
Margin == 2

CloudAge == 4

CloudTtl == 1

MaxNow == 6         \* last tick of the clock

\* the expires_in a token endpoint may grant
Ttls == {3, 5}

\* what a request for a token comes to: an error response, or a token that
\* expires in ttl
Grants ==
    {[ok |-> FALSE, ttl |-> 0]} \cup {[ok |-> TRUE, ttl |-> t] : t \in Ttls}

\* a credential: where connect() took it from, its 'type', its 'timestamp'
\* and its 'expires_in', and the time the endpoint that issued its access
\* token gave that token to live
Credential(origin, type, timestamp, expires_in, life) ==
    [origin |-> origin, type |-> type, timestamp |-> timestamp,
     expires_in |-> expires_in, life |-> life]

\* GCSFileSystem.__init__ entered, connect() not yet called. input is
\* input_token ("none", "dict" for a credentials dict or file, "cloud");
\* default says whether application default credentials exist; tokens is
\* the entry of GCSFileSystem.tokens for (project, access), << >> if it
\* has none; header is the credential whose access token self.header
\* carries; sent is the last request sent and how it was authorized
NewAuth(input, default, tokens) ==
    [pc |-> "new", input |-> input, default |-> default, tokens |-> tokens,
     now |-> 0, header |-> << >>, sent |-> << >>, exc |-> "none"]

\* _parse_gtoken(token) at time now
ParseGtoken(now) == Credential("explicit", "user", now, 0, 0)

\* lines 230-273 of connect(): the credential selected and the token cache
\* after it; device is what the device-code flow comes to
Select(a, device) ==
    LET tokens1 == IF a.input = "dict" THEN <<ParseGtoken(a.now)>>
                   ELSE a.tokens
    IN  IF tokens1 # << >>
        THEN [data |-> tokens1[1], tokens |-> tokens1, exc |-> "none"]
        ELSE IF a.input = "cloud"
        THEN [data |-> Credential("cloud", "cloud", a.now - CloudAge, CloudTtl,
                                 CloudTtl),
              tokens |-> tokens1, exc |-> "none"]
        ELSE IF a.default
        THEN LET d == Credential("default", "user", a.now, 0, 0)
             IN  [data |-> d, tokens |-> <<d>>, exc |-> "none"]
        ELSE IF ~device.ok
        THEN [data |-> Credential("none", "none", 0, 0, 0), tokens |-> tokens1,
              exc |-> "HttpError"]
        ELSE [data |-> Credential("device", "user", a.now, device.ttl,
                                 device.ttl),
              tokens |-> tokens1, exc |-> "none"]

\* the condition of line 274
RefreshDue(refresh, now, data) ==
    refresh \/ now - data.timestamp > data.expires_in - Margin

\* lines 276-294: the credential after the refresh request was answered
\* with a token that expires in ttl
Refreshed(now, data, ttl) ==
    IF data.type = "cloud"
    THEN Credential(data.origin, "cloud", now, ttl, ttl)
    ELSE [data EXCEPT !.timestamp = now, !.life = ttl]

\* connect(refresh); token is what the refresh request comes to
ConnectOf(a, refresh, device, token) ==
    LET sel == Select(a, device)
        due == RefreshDue(refresh, a.now, sel.data)
        data == IF due THEN Refreshed(a.now, sel.data, token.ttl) ELSE sel.data
    IN  IF sel.exc # "none"
        THEN [a EXCEPT !.pc = "failed", !.tokens = sel.tokens, !.exc = sel.exc]
        ELSE IF due /\ ~token.ok
        THEN [a EXCEPT !.pc = IF a.pc = "new" THEN "failed" ELSE a.pc,
                       !.tokens = sel.tokens, !.exc = "HttpError"]
        ELSE [a EXCEPT !.pc = "ready", !.tokens = <<data>>,
                       !.header = <<data>>, !.exc = "none"]

\* GCSFileSystem.__init__ calls connect()
Connect(device, token) ==
    /\ auth.pc = "new"
    /\ auth' = ConnectOf(auth, FALSE, device, token)
    /\ UNCHANGED <<rf, rop, wf, gcs, wop, dirs, call, fsop, objects>>

\* connect(refresh) called again on the instance, by the user or by
\* __setstate__
Reconnect(refresh, device, token) ==
    /\ auth.pc = "ready"
    /\ auth' = ConnectOf(auth, refresh, device, token)
    /\ UNCHANGED <<rf, rop, wf, gcs, wop, dirs, call, fsop, objects>>

\* a second goes by
Tick ==
    /\ auth.pc = "ready"
    /\ auth.now < MaxNow
    /\ auth' = [auth EXCEPT !.now = @ + 1]
    /\ UNCHANGED <<rf, rop, wf, gcs, wop, dirs, call, fsop, objects>>

\* one HTTP request with headers=self.header: of _call ("api"), of
\* _fetch_range ("fetch"), or of an upload ("upload")
Request(kind) ==
    /\ auth.pc = "ready"
    /\ auth' = [auth EXCEPT !.sent = <<[kind |-> kind, at |-> auth.now,
                                        with |-> auth.header[1]]>>]
    /\ UNCHANGED <<rf, rop, wf, gcs, wop, dirs, call, fsop, objects>>

\* the entries GCSFileSystem.tokens may hold for (project, access) when the
\* instance is made: none, or one an earlier instance left
CachedTokens ==
    {<< >>} \cup
    {<<Credential("cache", "cloud", ts, t, t)>> :
        ts \in {0 - CloudAge, 0}, t \in Ttls} \cup
    {<<Credential("cache", "user", ts, e, t)>> :
        ts \in {0 - CloudAge, 0}, e \in {0, 3}, t \in {3}}

InitAuth ==
    /\ \E input \in {"none", "dict", "cloud"}, default \in BOOLEAN,
          tokens \in CachedTokens :
            auth = NewAuth(input, default, tokens)
    /\ rf = IdleReader
    /\ rop = NoOp
    /\ wf = IdleWriter
    /\ gcs = IdleGcs
    /\ wop = WNoOp
    /\ dirs = EmptyDict
    /\ call = IdleCall
    /\ fsop = FsNoOp
    /\ objects = IdleStore

NextAuth ==
    \/ \E device \in Grants, token \in Grants : Connect(device, token)
    \/ \E refresh \in BOOLEAN, device \in Grants, token \in Grants :
            Reconnect(refresh, device, token)
    \/ Tick
    \/ \E kind \in {"api", "fetch", "upload"} : Request(kind)

SpecAuth == InitAuth /\ [][NextAuth]_vars

\* C13: every request is sent with a token that has more than the margin
\* left to live when it is sent.
C13_RequestsCarryFreshToken ==
    auth.sent # << >> =>
        LET s == auth.sent[1]
        IN  s.with.timestamp + s.with.life - s.at > Margin

\* C14: connect() uses the explicit token when one was given, the cloud
\* identity when 'cloud' was given, else the cached token, else the
\* default credentials, else the device-code flow.
C14_AcquisitionOrder ==
    [][(auth.pc = "new" /\ auth'.pc = "ready") =>
        LET used == auth'.header[1]
        IN  CASE auth.input = "dict" -> used.origin = "explicit"
              [] auth.input = "cloud" -> used.type = "cloud"
              [] auth.tokens # << >> -> used.origin = "cache"
              [] auth.default -> used.origin = "default"
              [] OTHER -> used.origin = "device"]_vars

\* --------------------------------------------------- the write handle

\* every byte the caller has written, in order
AllWritten == Written(0, wf.loc)

\* C2: when close() has returned normally and the provider stored the
\* bytes it was sent, the object it holds is exactly the bytes written, in
\* order, each once.
C2_RoundTrip ==
    (wf.closed /\ ~gcs.damaged) => (gcs.exists /\ gcs.object = AllWritten)

\* closed after a resumable upload of more than the one-shot limit, one of
\* whose chunks the provider acknowledged only in part
C2_Witness ==
    /\ wf.closed /\ ~gcs.damaged
    /\ wf.loc > OneShotMax
    /\ wf.location = "session"
    /\ gcs.partial
    /\ gcs.object = AllWritten

\* closed after a one-shot upload of less than a block
C2_WitnessOneShot ==
    /\ wf.closed /\ ~gcs.damaged
    /\ wf.loc >= 1 /\ wf.loc < MinBlock
    /\ wf.location = "None"
    /\ gcs.object = AllWritten

\* C3: with consistency='md5', a finalizing flush or close to which the
\* provider reported completion with an md5Hash other than that of the
\* bytes written raises.
C3_Md5MismatchRaises ==
    (/\ wf.consistency = "md5"
     /\ wop.op \in {"flush", "close"} /\ wop.force
     /\ \E i \in DOMAIN wop.done : wop.done[i].md5 # Md5Hash(AllWritten))
    => wop.exc # "none"

\* C4: with consistency='md5', starting where the digest covers the bytes
\* acknowledged so far, a finalizing flush or close whose every upload
\* request the provider answered with a completion, the object stored
\* faithfully, leaves the digest covering every byte written and passes
\* the check.
C4_FaithfulUploadPasses ==
    [][(/\ wf.consistency = "md5"
        /\ wf.md5 = Written(0, wf.offset)
        /\ wop'.op \in {"flush", "close"} /\ wop'.force
        /\ wop'.done # << >>
        /\ Len(wop'.done) = Cardinality(wop'.asked \cap {"simple", "chunk"})
        /\ \A i \in DOMAIN wop'.done : wop'.done[i].md5 = Md5Hash(Written(0, wf'.loc)))
       => (wf'.md5 = Written(0, wf'.loc) /\ wop'.exc = "none")]_vars

\* the consistency check the handle was opened with, on the object the
\* provider reports
Verified ==
    /\ wf.consistency = "size" => Len(gcs.object) = wf.loc
    /\ wf.consistency = "md5" => Md5Hash(gcs.object) = Md5Hash(AllWritten)

\* C5: the handle is closed only if the provider reported the object
\* complete and the consistency check passes on what it reported.
C5_ClosedOnlyIfVerified ==
    wf.closed => (gcs.exists /\ Verified)

\* C6: while a resumable session is open, offset is the number of bytes the
\* provider has acknowledged and the buffer is the bytes written after
\* them; offset never decreases and does not move when a call raises.
C6_OffsetIsAcknowledged ==
    /\ [](wf.location = "session" =>
            /\ wf.offset = Len(gcs.persisted)
            /\ wf.buffer = Written(wf.offset, wf.loc))
    /\ [][/\ wf'.offset >= wf.offset
          /\ wop'.exc # "none" => wf'.offset = wf.offset]_vars

\* C6 as amended: offset never exceeds the bytes acknowledged, and equals
\* them after every call whose chunk request the handle accepted; the
\* buffer is the bytes written after offset; offset never decreases and
\* does not move when a call raises.
C6_OffsetFollowsAccepted ==
    /\ [](wf.location = "session" =>
            /\ wf.offset <= Len(gcs.persisted)
            /\ ("chunk" \in wop.asked /\ wop.exc = "none")
                    => wf.offset = Len(gcs.persisted)
            /\ wf.buffer = Written(wf.offset, wf.loc))
    /\ [][/\ wf'.offset >= wf.offset
          /\ wop'.exc # "none" => wf'.offset = wf.offset]_vars

\* a chunk acknowledged in part: offset moved to the acknowledged byte and
\* the tail stayed in the buffer
C6_Witness ==
    /\ wop.op = "write" /\ wop.exc = "none" /\ "chunk" \in wop.asked
    /\ wf.offset >= 1
    /\ wf.offset < wf.loc
    /\ wf.offset = Len(gcs.persisted)
    /\ wf.buffer # << >>

\* C7: once a flush(force=True) has returned, every write raises ValueError
\* and leaves the handle as it was, and every flush(force=True) raises
\* ValueError and sends nothing.
C7_FinalizeOnce ==
    [][wop.finalized =>
        /\ wop'.op = "write" =>
              (wop'.exc = "ValueError" /\ wf' = wf /\ wop'.asked = {})
        /\ (wop'.op = "flush" /\ wop'.force) =>
              (wop'.exc = "ValueError" /\ wf' = wf /\ wop'.asked = {})]_vars

\* a write refused on a handle that was force-flushed and is still open
C7_Witness ==
    /\ wop.finalized /\ ~wf.closed
    /\ wop.op = "write" /\ wop.exc = "ValueError"
    /\ wf.loc >= 1

\* C8: when close() has closed the write handle, the listing cache has no
\* entry for the handle's bucket.
C8_CloseInvalidates ==
    [][(~wf.closed /\ wf'.closed) => wf.bucket \notin DOMAIN dirs']_vars

\* closed, the object stored, the other bucket's listing still cached and
\* the handle's bucket not
C8_Witness ==
    /\ wop.op = "close" /\ wop.exc = "none" /\ wop.done # << >>
    /\ wf.closed /\ gcs.exists
    /\ wf.bucket \notin DOMAIN dirs
    /\ "b2" \in DOMAIN dirs

====
